---- MODULE Spec2Model ----
(***************************************************************************)
(* Verification model of the Aion country explorer's client state:         *)
(*   - the zustand store (session flag, favorites, metadata, recently      *)
(*     added queue, persisted blob) and the aion-auth cookie;              *)
(*   - the ProtectedRoute guard component;                                 *)
(*   - the useDebounce / useDebouncedSearch hooks.                         *)
(* Every store action, effect and timer callback is one atomic step of the *)
(* browser's event loop.                                                   *)
(***************************************************************************)
EXTENDS Integers, Sequences, FiniteSets, TLC

\* ------------------------------------------------------------------ bounds

\* Store operations explored from each initial store.
MaxOps == 3
\* Milliseconds Date.now() may advance during a run.
MaxTicks == 2
\* Times a guarded page is entered during a run.
MaxMounts == 2
\* Changes of the debounce hook's arguments during a run.
MaxChanges == 3
\* Longest debounce delay, in units of time of the model.
MaxDelay == 2
\* Longest list of countries handed to the list container.
MaxCountries == 3

\* ------------------------------------------------------- program constants

\* .slice(0, 10) / .slice(-10): capacity of the recently-added queue.
RecentLimit == 10

\* getRecentlyAdded: (limit = 5)
DefaultLimit == 5

\* --------------------------------------------------------------- variables

VARIABLES
  isAuthenticated,    \* store: session flag
  favorites,          \* store: string[] of codes, in insertion order
  recentlyAdded,      \* store: string[] queue, most recent first
  favoritesMetadata,  \* store: Record<code, {addedAt, notes?}>
  persisted,          \* localStorage blob written by the persist middleware
  cookie,             \* value of the aion-auth cookie ("" when absent)
  cookieExpired,      \* the cookie was dropped because its max-age elapsed
  now,                \* Date.now()
  ops,                \* number of store operations called so far
  lastCall,           \* the last store call: its name, argument and outcome
  exportFile,         \* the downloaded text of the last exportFavorites()
  exportedFrom,       \* the favorite codes the store held at that export
  mounted,            \* ProtectedRoute: the component is mounted
  requireAuth,        \* ProtectedRoute: the requireAuth prop
  isHydrated,         \* ProtectedRoute: useState(false)
  isRedirecting,      \* ProtectedRoute: useState(false)
  effectDue,          \* ProtectedRoute: the redirect effect's deps changed
  timers,             \* pending setTimeout(() => router.push(loginUrl), 100)
  view,               \* ProtectedRoute: what the last render returned
  mounts,             \* number of times a guarded page was entered
  lastPush,           \* the guard's last router.push: the session it fired in
  hook,               \* useDebouncedSearch: "unborn", "mounted" or "unmounted"
  searchTerm,         \* the hook's `value` / `searchTerm` argument
  delay,              \* the hook's `delay` argument
  debouncedValue,     \* useDebounce: useState(value)
  isSearching,        \* useDebouncedSearch: useState(false)
  timeouts,           \* pending setTimeout callbacks of useDebounce
  timer,              \* the id the effect's closure holds (0: none)
  nextId,             \* the id the next setTimeout returns
  changes,            \* number of argument changes so far
  burstBase,          \* debouncedValue when the current burst of changes began
  burstLen,           \* argument changes in the current burst
  settles,            \* timer callbacks run since the current burst began
  cleared,            \* clearSearch() ran since isSearching was last computed
  phase,              \* calls made of an observed pair of calls (0, 1 or 2)
  before,             \* favorites and metadata before the pair's first call
  listMounted,        \* CountryListContainer: the component is mounted
  countries,          \* CountryListContainer: the countries prop
  debouncedSearchTerm,\* CountryListContainer: the debounced search term
  selectedRegion,     \* CountryListContainer: useState('')
  sortBy,             \* CountryListContainer: useState('name')
  sortOrder,          \* CountryListContainer: useState('asc')
  shown,              \* CountryListContainer: filteredAndSortedCountries
  apiCall,            \* lib/api: the last call, its response and its outcome
  page,               \* CountryPage: the server render of /country/[id]
  toasts,             \* useToastStore: the toasts on screen
  reading,            \* FavoritesClient: the file a FileReader is reading
  location,           \* browser: the URL shown (path and ?from=)
  inFlight,           \* browser: the navigation request under way
  loginPage,          \* LoginPage: "absent", "effectDue" or "form"
  visits,             \* navigations the user has started
  hops                \* redirects since the user's last navigation

storeVars == <<isAuthenticated, favorites, recentlyAdded, favoritesMetadata,
               persisted, cookie, cookieExpired, now, ops, lastCall,
               exportFile, exportedFrom>>

guardVars == <<mounted, requireAuth, isHydrated, isRedirecting, effectDue,
               timers, view, mounts, lastPush>>

hookVars == <<hook, searchTerm, delay, debouncedValue, isSearching, timeouts,
              timer, nextId, changes, burstBase, burstLen, settles, cleared>>

\* Observation of two consecutive calls of one store operation.
pairVars == <<phase, before>>

\* State of CountryListContainer.
listVars == <<listMounted, countries, debouncedSearchTerm, selectedRegion,
              sortBy, sortOrder, shown>>

\* The calls of lib/api and the server-rendered country page.
apiVars == <<apiCall, page>>

\* The toasts and the file being imported.
toastVars == <<toasts, reading>>

\* The browser's location and the login page.
navVars == <<location, inFlight, loginPage, visits, hops>>

\* What lies outside the store, the guard, the hooks and the list.
siteVars == <<apiVars, toastVars, navVars>>

vars == <<storeVars, guardVars, hookVars, pairVars, listVars, siteVars>>

\* ------------------------------------------------------------ value domain

\* A `notes` field that is undefined (absent after JSON serialisation).
NoNotes == "<undefined>"
\* A missing, empty or otherwise falsy `code` of an import item.
NoCode == ""
\* Cookie values.
CookieAuthenticated == "authenticated"
CookieAbsent == ""

\* Codes a caller passes to the store: lowercase, uppercase and mixed case.
InputCodes == {"us", "US", "ca", "ad"}
InputNotes == {"Great place to visit"}

\* Faulty variant: codes are used as given.
ToLowerCase_AsGiven(s) == s

\* String.prototype.toLowerCase on the codes of the model.
ToLowerCase(s) ==
  CASE s = "US" -> "us"
    [] s = "Ca" -> "ca"
    [] s = "CA" -> "ca"
    [] OTHER -> s

\* ------------------------------------------------------- array primitives

\* Faulty variant: no element is ever found.
Includes_Never(arr, x) == FALSE

\* Array.prototype.includes
Includes(arr, x) == \E i \in 1..Len(arr) : arr[i] = x

\* Array.prototype.filter(e => e !== x)
FilterOut(arr, x) == SelectSeq(arr, LAMBDA e : e # x)

\* Array.prototype.slice(0, n)
SliceHead(arr, n) == IF Len(arr) <= n THEN arr ELSE SubSeq(arr, 1, n)

\* Array.prototype.slice(-n)
SliceTail(arr, n) ==
  IF Len(arr) <= n THEN arr ELSE SubSeq(arr, Len(arr) - n + 1, Len(arr))

\* Array.prototype.reverse
Reverse(arr) == [i \in 1..Len(arr) |-> arr[Len(arr) + 1 - i]]

\* The set of elements of an array.
Elems(arr) == {arr[i] : i \in 1..Len(arr)}

\* ------------------------------------------------------ object primitives

\* {} : an object without own keys.
EmptyObject == [k \in {} |-> [addedAt |-> 0, notes |-> NoNotes]]

\* obj[k] is truthy (own keys only: codes are country codes).
HasKey(obj, k) == k \in DOMAIN obj

\* { ...obj, [k]: v }
Spread(obj, k, v) == [x \in (DOMAIN obj) \cup {k} |-> IF x = k THEN v ELSE obj[x]]

\* const o = { ...obj }; delete o[k]
DeleteKey(obj, k) == [x \in (DOMAIN obj) \ {k} |-> obj[x]]

\* ----------------------------------------------------------- persistence

\* partialize: the part of the state written to localStorage.
partialize(auth, favs, recent, meta) ==
  [isAuthenticated |-> auth, favorites |-> favs,
   recentlyAdded |-> recent, favoritesMetadata |-> meta]

\* Faulty variant: set() changes the state in memory only.
SetState_MemoryOnly(auth, favs, recent, meta) ==
  /\ isAuthenticated' = auth
  /\ favorites' = favs
  /\ recentlyAdded' = recent
  /\ favoritesMetadata' = meta
  /\ UNCHANGED persisted

\* zustand's set(): merges the partial state and writes the blob through.
SetState(auth, favs, recent, meta) ==
  /\ isAuthenticated' = auth
  /\ favorites' = favs
  /\ recentlyAdded' = recent
  /\ favoritesMetadata' = meta
  /\ persisted' = partialize(auth, favs, recent, meta)

\* A call that returns without calling set().
NoSet == UNCHANGED <<isAuthenticated, favorites, recentlyAdded,
                     favoritesMetadata, persisted>>

\* Bookkeeping of a completed store call.
Called(op, arg, ret) ==
  /\ ops < MaxOps
  /\ ops' = ops + 1
  /\ lastCall' = [op |-> op, arg |-> arg, ret |-> ret]

\* ---------------------------------------------------------- store actions

\* Faulty variant: the queue is never cut.
PushRecent_Unbounded(recent, code) == <<code>> \o FilterOut(recent, code)

\* favorites.includes / [normalizedCode, ...recentlyAdded.filter(...)].slice(0, 10)
PushRecent(recent, code) ==
  SliceHead(<<code>> \o FilterOut(recent, code), RecentLimit)

\* Faulty variant: login sets the flag in the store and writes no cookie.
login_FlagOnly ==
  /\ UNCHANGED <<cookie, cookieExpired>>
  /\ SetState(TRUE, favorites, recentlyAdded, favoritesMetadata)
  /\ UNCHANGED <<now, exportFile, exportedFrom>>

login ==
  /\ cookie' = CookieAuthenticated
  /\ cookieExpired' = FALSE
  /\ SetState(TRUE, favorites, recentlyAdded, favoritesMetadata)
  /\ UNCHANGED <<now, exportFile, exportedFrom>>

\* Faulty variant: logout clears the favorites only.
logout_FavoritesOnly ==
  /\ cookie' = CookieAbsent
  /\ cookieExpired' = FALSE
  /\ SetState(FALSE, <<>>, recentlyAdded, favoritesMetadata)
  /\ UNCHANGED <<now, exportFile, exportedFrom>>

logout ==
  /\ cookie' = CookieAbsent
  /\ cookieExpired' = FALSE
  /\ SetState(FALSE, <<>>, <<>>, EmptyObject)
  /\ UNCHANGED <<now, exportFile, exportedFrom>>

\* Faulty variant: a removed code stays in the recently-added queue.
RemoveBranch_KeepsQueue(normalizedCode) ==
  SetState(isAuthenticated,
           FilterOut(favorites, normalizedCode),
           recentlyAdded,
           DeleteKey(favoritesMetadata, normalizedCode))

\* The remove branch shared by toggleFavorite and removeFromFavorites.
RemoveBranch(normalizedCode) ==
  SetState(isAuthenticated,
           FilterOut(favorites, normalizedCode),
           FilterOut(recentlyAdded, normalizedCode),
           DeleteKey(favoritesMetadata, normalizedCode))

\* The add branch shared by toggleFavorite and addToFavorites.
AddBranch(normalizedCode, notes) ==
  SetState(isAuthenticated,
           Append(favorites, normalizedCode),
           PushRecent(recentlyAdded, normalizedCode),
           Spread(favoritesMetadata, normalizedCode,
                  [addedAt |-> now, notes |-> notes]))

\* Faulty variant: toggleFavorite adds the code whether or not it is present.
toggleFavorite_AlwaysAdds(code) ==
  /\ AddBranch(ToLowerCase(code), NoNotes)
  /\ UNCHANGED <<cookie, cookieExpired, now, exportFile, exportedFrom>>

toggleFavorite(code) ==
  LET normalizedCode == ToLowerCase(code)
      isCurrentlyFavorited == Includes(favorites, normalizedCode)
  IN  /\ IF isCurrentlyFavorited
           THEN RemoveBranch(normalizedCode)
           ELSE AddBranch(normalizedCode, NoNotes)
      /\ UNCHANGED <<cookie, cookieExpired, now, exportFile, exportedFrom>>

\* Faulty variant: adding a code that is present moves it to the front of
\* the recently-added queue.
addToFavorites_MovesToFront(code, notes) ==
  LET normalizedCode == ToLowerCase(code)
  IN  /\ IF ~Includes(favorites, normalizedCode)
           THEN AddBranch(normalizedCode, notes)
           ELSE SetState(isAuthenticated, favorites,
                         PushRecent(recentlyAdded, normalizedCode),
                         favoritesMetadata)
      /\ UNCHANGED <<cookie, cookieExpired, now, exportFile, exportedFrom>>

addToFavorites(code, notes) ==
  LET normalizedCode == ToLowerCase(code)
  IN  /\ IF ~Includes(favorites, normalizedCode)
           THEN AddBranch(normalizedCode, notes)
           ELSE NoSet
      /\ UNCHANGED <<cookie, cookieExpired, now, exportFile, exportedFrom>>

\* Faulty variant: the removed code keeps its metadata entry.
removeFromFavorites_KeepsMetadata(code) ==
  LET normalizedCode == ToLowerCase(code)
  IN  /\ IF Includes(favorites, normalizedCode)
           THEN SetState(isAuthenticated,
                         FilterOut(favorites, normalizedCode),
                         FilterOut(recentlyAdded, normalizedCode),
                         favoritesMetadata)
           ELSE NoSet
      /\ UNCHANGED <<cookie, cookieExpired, now, exportFile, exportedFrom>>

removeFromFavorites(code) ==
  LET normalizedCode == ToLowerCase(code)
  IN  /\ IF Includes(favorites, normalizedCode)
           THEN RemoveBranch(normalizedCode)
           ELSE NoSet
      /\ UNCHANGED <<cookie, cookieExpired, now, exportFile, exportedFrom>>

\* Faulty variant: a note for a code without entry creates the entry.
addFavoriteNote_CreatesEntry(code, note) ==
  LET normalizedCode == ToLowerCase(code)
  IN  /\ SetState(isAuthenticated, favorites, recentlyAdded,
             Spread(favoritesMetadata, normalizedCode,
                    [addedAt |-> IF HasKey(favoritesMetadata, normalizedCode)
                                   THEN favoritesMetadata[normalizedCode].addedAt
                                   ELSE now,
                     notes |-> note]))
      /\ UNCHANGED <<cookie, cookieExpired, now, exportFile, exportedFrom>>

addFavoriteNote(code, note) ==
  LET normalizedCode == ToLowerCase(code)
  IN  /\ IF HasKey(favoritesMetadata, normalizedCode)
           THEN SetState(isAuthenticated, favorites, recentlyAdded,
                  Spread(favoritesMetadata, normalizedCode,
                         [favoritesMetadata[normalizedCode] EXCEPT !.notes = note]))
           ELSE NoSet
      /\ UNCHANGED <<cookie, cookieExpired, now, exportFile, exportedFrom>>

removeFavoriteNote(code) ==
  LET normalizedCode == ToLowerCase(code)
  IN  /\ IF HasKey(favoritesMetadata, normalizedCode)
           THEN SetState(isAuthenticated, favorites, recentlyAdded,
                  Spread(favoritesMetadata, normalizedCode,
                         [favoritesMetadata[normalizedCode] EXCEPT !.notes = NoNotes]))
           ELSE NoSet
      /\ UNCHANGED <<cookie, cookieExpired, now, exportFile, exportedFrom>>

\* Faulty variant: the queue of recently added codes is left as it was.
clearAllFavorites_KeepsQueue ==
  /\ SetState(isAuthenticated, <<>>, recentlyAdded, EmptyObject)
  /\ UNCHANGED <<cookie, cookieExpired, now, exportFile, exportedFrom>>

\* clearAllFavorites
clearAllFavorites ==
  /\ SetState(isAuthenticated, <<>>, <<>>, EmptyObject)
  /\ UNCHANGED <<cookie, cookieExpired, now, exportFile, exportedFrom>>

\* -------------------------------------------------------- import documents

\* One element of the document's `favorites` array; null models a JSON null.
Item(c, t, n) == [isNull |-> FALSE, code |-> c, addedAt |-> t, notes |-> n]
NullItem == [isNull |-> TRUE, code |-> NoCode, addedAt |-> 0, notes |-> NoNotes]

\* The text handed to importFavorites, by what JSON.parse makes of it:
\*   json = "malformed": not JSON, JSON.parse throws a SyntaxError;
\*   json = "null":      the JSON text null;
\*   json = "object":    an object whose `favorites` is absent, not an array,
\*                       or the array `items`.
\* An addedAt of 0 is an absent (or falsy) addedAt.
Doc(j, f, items) == [json |-> j, favorites |-> f, items |-> items]

DocMalformed == Doc("malformed", "absent", <<>>)
DocNull == Doc("null", "absent", <<>>)
DocNoFavorites == Doc("object", "absent", <<>>)
DocFavoritesNotArray == Doc("object", "notArray", <<>>)

ImportDocs ==
  { DocMalformed, DocNull, DocNoFavorites, DocFavoritesNotArray,
    Doc("object", "array", <<>>),
    Doc("object", "array", <<Item("us", 1, "Test note"), Item("ca", 0, NoNotes)>>),
    Doc("object", "array", <<Item("US", 2, NoNotes), Item("us", 1, NoNotes)>>),
    Doc("object", "array", <<Item("mx", 1, NoNotes), NullItem>>),
    Doc("object", "array", <<Item(NoCode, 1, NoNotes), Item("ad", 1, "n")>>) }

\* The document is not valid JSON, or its parsed value has no favorites array.
IsInvalidDoc(doc) == doc.json # "object" \/ doc.favorites # "array"

\* ---------------------------------------------------------------- getters

\* Limits passed to getRecentlyAdded; a call without argument takes the
\* default.
Limits == {1, DefaultLimit}

\* recentlyAdded.slice(0, limit)
getRecentlyAdded(limit) == SliceHead(recentlyAdded, limit)

\* ------------------------------------------------------- exportFavorites

\* No file has been downloaded.
NoFile == Doc("none", "absent", <<>>)

\* Faulty variant: the exported entry carries the metadata but not the code.
ExportedItem_WithoutCode(code, meta, time) ==
  Item(NoCode, meta[code].addedAt, meta[code].notes)

\* { code, addedAt: favoritesMetadata[code]?.addedAt || Date.now(),
\*   notes: favoritesMetadata[code]?.notes }, as JSON.parse reads it back from
\* the stringified text: an undefined notes is left out by JSON.stringify
\* and is undefined again after parsing.
ExportedItem(code, meta, time) ==
  Item(code,
       IF HasKey(meta, code) /\ meta[code].addedAt # 0
         THEN meta[code].addedAt ELSE time,
       IF HasKey(meta, code) THEN meta[code].notes ELSE NoNotes)

\* JSON.stringify({ version, exportedAt, favorites: favorites.map(...) }).
exportFavorites(favs, meta, time) ==
  Doc("object", "array",
      [i \in 1..Len(favs) |-> ExportedItem(favs[i], meta, time)])

\* ------------------------------------------------------- importFavorites

\* Outcome of running a block of code: it threw, or it returned `ret` after
\* (when `set`) calling set() with favs, meta and recent.
Thrown == [threw |-> TRUE, ret |-> FALSE, set |-> FALSE,
           favs |-> <<>>, meta |-> EmptyObject, recent |-> <<>>]
Returned(ret) == [threw |-> FALSE, ret |-> ret, set |-> FALSE,
                  favs |-> <<>>, meta |-> EmptyObject, recent |-> <<>>]
ReturnedSet(ret, favs, meta, recent) ==
  [threw |-> FALSE, ret |-> ret, set |-> TRUE,
   favs |-> favs, meta |-> meta, recent |-> recent]

\* Faulty variant: the imported entry is stamped anew and loses its notes.
ImportedEntry_Regenerated(item) == [addedAt |-> now, notes |-> NoNotes]

\* { addedAt: item.addedAt || Date.now(), notes: item.notes }
ImportedEntry(item) ==
  [addedAt |-> IF item.addedAt # 0 THEN item.addedAt ELSE now,
   notes |-> item.notes]

\* importData.favorites.forEach(...): folds the items into the local copies
\* newFavorites / newMetadata / addedCount; reading .code of null throws.
RECURSIVE ImportItems(_, _, _, _, _)
ImportItems(items, i, newFavorites, newMetadata, addedCount) ==
  IF i > Len(items)
    THEN [threw |-> FALSE, newFavorites |-> newFavorites,
          newMetadata |-> newMetadata, addedCount |-> addedCount]
  ELSE IF items[i].isNull
    THEN [threw |-> TRUE, newFavorites |-> newFavorites,
          newMetadata |-> newMetadata, addedCount |-> addedCount]
  ELSE IF items[i].code = NoCode
    THEN ImportItems(items, i + 1, newFavorites, newMetadata, addedCount)
  ELSE LET normalizedCode == ToLowerCase(items[i].code)
       IN  IF Includes(newFavorites, normalizedCode)
             THEN ImportItems(items, i + 1, newFavorites, newMetadata, addedCount)
             ELSE ImportItems(items, i + 1,
                    Append(newFavorites, normalizedCode),
                    Spread(newMetadata, normalizedCode, ImportedEntry(items[i])),
                    addedCount + 1)

\* The body of the try block.
ImportTry(doc) ==
  IF doc.json = "malformed" THEN Thrown          \* JSON.parse throws
  ELSE IF doc.json = "null" THEN Thrown          \* null.favorites throws
  ELSE IF doc.favorites # "array" THEN Returned(FALSE)
  ELSE LET r == ImportItems(doc.items, 1, favorites, favoritesMetadata, 0)
       IN  IF r.threw THEN Thrown
           ELSE IF r.addedCount > 0
             THEN ReturnedSet(TRUE, r.newFavorites, r.newMetadata,
                              Reverse(SliceTail(r.newFavorites, RecentLimit)))
             ELSE Returned(TRUE)

\* Faulty variant: no catch block, the exception reaches the caller.
TryCatch_Missing(outcome) == outcome

\* try { ... } catch (error) { console.error(...); return false; }
TryCatch(outcome) == IF outcome.threw THEN Returned(FALSE) ELSE outcome

\* What the caller of importFavorites observes.
ImportOutcome(doc) == TryCatch(ImportTry(doc))

ReturnText(outcome) ==
  IF outcome.threw THEN "throws" ELSE IF outcome.ret THEN "true" ELSE "false"

importFavorites(doc) ==
  LET outcome == ImportOutcome(doc)
  IN  /\ IF outcome.set
           THEN SetState(isAuthenticated, outcome.favs, outcome.recent, outcome.meta)
           ELSE NoSet
      /\ UNCHANGED <<cookie, cookieExpired, now, exportFile, exportedFrom>>

\* ------------------------------------------------------ store, as created

\* Favorites of an earlier session, added one per millisecond, oldest first.
SeedCodes == <<"ad", "ae", "af", "ag", "ai", "al", "am", "ao", "aq">>
SeedMetadata ==
  [c \in Elems(SeedCodes) |->
     [addedAt |-> CHOOSE i \in 1..Len(SeedCodes) : SeedCodes[i] = c,
      notes |-> NoNotes]]
StartTime == Len(SeedCodes) + 1

\* create(persist(...)): the initial state, or the state rehydrated from the
\* blob a logged-in earlier session left in localStorage.
StoreCreated(auth, favs, recent, meta) ==
  /\ isAuthenticated = auth
  /\ favorites = favs
  /\ recentlyAdded = recent
  /\ favoritesMetadata = meta
  /\ persisted = partialize(auth, favs, recent, meta)
  /\ cookie = IF auth THEN CookieAuthenticated ELSE CookieAbsent
  /\ cookieExpired = FALSE
  /\ exportFile = NoFile
  /\ exportedFrom = {}
  /\ now = StartTime
  /\ ops = 0
  /\ lastCall = [op |-> "create", arg |-> NoCode, ret |-> "void"]

InitStore ==
  \/ StoreCreated(FALSE, <<>>, <<>>, EmptyObject)
  \/ StoreCreated(TRUE, SeedCodes, Reverse(SeedCodes), SeedMetadata)

\* Date.now() advances.
Tick ==
  /\ now < StartTime + MaxTicks
  /\ now' = now + 1
  /\ UNCHANGED <<isAuthenticated, favorites, recentlyAdded, favoritesMetadata,
                 persisted, cookie, cookieExpired, ops, lastCall,
                 exportFile, exportedFrom>>

\* ------------------------------------------------------- ProtectedRoute

\* Faulty variant: the render does not wait for hydration.
Render_SkipsHydration(hydrated, redirecting, required, authenticated) ==
  IF redirecting THEN "fallback"
  ELSE IF ~required THEN "children"
  ELSE IF authenticated THEN "children"
  ELSE "fallback"

\* The component's return value: the children or the loading placeholder
\* (fallback || <CountryDetailSkeleton />).
Render(hydrated, redirecting, required, authenticated) ==
  IF ~hydrated \/ redirecting THEN "fallback"
  ELSE IF ~required THEN "children"
  ELSE IF authenticated THEN "children"
  ELSE "fallback"

\* The redirect effect's condition.
ShouldRedirect(hydrated, required, authenticated, redirecting) ==
  hydrated /\ required /\ ~authenticated /\ ~redirecting

\* No guard on screen, no timer pending, nothing pushed yet.
InitGuard ==
  /\ mounted = FALSE
  /\ requireAuth = TRUE
  /\ isHydrated = FALSE
  /\ isRedirecting = FALSE
  /\ effectDue = FALSE
  /\ timers = 0
  /\ view = "none"
  /\ mounts = 0
  /\ lastPush = [fired |-> FALSE, authenticated |-> FALSE, mounted |-> FALSE]

\* Passive effects of the last commit are still to run; React flushes them
\* before it handles any later update or event.
EffectsPending == mounted /\ (~isHydrated \/ effectDue)

\* The guard re-renders after a store update it subscribes to.
RenderAfterStoreUpdate ==
  /\ view' = IF mounted
               THEN Render(isHydrated, isRedirecting, requireAuth, isAuthenticated')
               ELSE view
  /\ effectDue' = (mounted /\ isAuthenticated' # isAuthenticated)
  /\ UNCHANGED <<mounted, requireAuth, isHydrated, isRedirecting, timers,
                 mounts, lastPush>>

\* A guarded page is entered: first render, with both state hooks false.
GuardMount ==
  \E required \in BOOLEAN :
    /\ ~mounted
    /\ mounts < MaxMounts
    /\ mounts' = mounts + 1
    /\ mounted' = TRUE
    /\ requireAuth' = required
    /\ isHydrated' = FALSE
    /\ isRedirecting' = FALSE
    /\ effectDue' = FALSE
    /\ view' = Render(FALSE, FALSE, required, isAuthenticated)
    /\ UNCHANGED <<timers, lastPush>>
    /\ UNCHANGED <<storeVars, hookVars, pairVars, listVars, siteVars>>

\* The effects of the first commit: setIsHydrated(true); the redirect effect
\* of that commit still sees isHydrated = false and does nothing. The guard
\* re-renders, and the redirect effect is due again (isHydrated changed).
MountEffects ==
  /\ mounted /\ ~isHydrated
  /\ isHydrated' = TRUE
  /\ effectDue' = TRUE
  /\ view' = Render(TRUE, isRedirecting, requireAuth, isAuthenticated)
  /\ UNCHANGED <<mounted, requireAuth, isRedirecting, timers, mounts, lastPush>>
  /\ UNCHANGED <<storeVars, hookVars, pairVars, listVars, siteVars>>

\* The redirect effect: setIsRedirecting(true) and setTimeout(push, 100).
\* The effect returns no cleanup, so nothing ever clears the timeout.
RedirectEffect ==
  /\ mounted /\ isHydrated /\ effectDue
  /\ IF ShouldRedirect(isHydrated, requireAuth, isAuthenticated, isRedirecting)
       THEN /\ isRedirecting' = TRUE
            /\ timers' = timers + 1
            /\ effectDue' = TRUE     \* isRedirecting is a dependency
            /\ view' = Render(isHydrated, TRUE, requireAuth, isAuthenticated)
       ELSE /\ effectDue' = FALSE
            /\ UNCHANGED <<isRedirecting, timers, view>>
  /\ UNCHANGED <<mounted, requireAuth, isHydrated, mounts, lastPush>>
  /\ UNCHANGED <<storeVars, hookVars, pairVars, listVars, siteVars>>

\* The page is left (a link, router.push of another handler): the guard
\* unmounts; its pending timeout stays scheduled.
Unmounted ==
  /\ mounted' = FALSE
  /\ isHydrated' = FALSE
  /\ isRedirecting' = FALSE
  /\ effectDue' = FALSE
  /\ view' = "none"

GuardUnmount ==
  /\ mounted /\ ~EffectsPending
  /\ Unmounted
  /\ UNCHANGED <<requireAuth, timers, mounts, lastPush>>
  /\ UNCHANGED <<storeVars, hookVars, pairVars, listVars, siteVars>>

\* The timeout fires: router.push(loginUrl) navigates to the login page,
\* which replaces whatever page is shown.
TimerFire ==
  /\ timers > 0 /\ ~EffectsPending
  /\ timers' = timers - 1
  /\ lastPush' = [fired |-> TRUE, authenticated |-> isAuthenticated,
                  mounted |-> mounted]
  /\ Unmounted
  /\ UNCHANGED <<requireAuth, mounts>>
  /\ UNCHANGED <<storeVars, hookVars, pairVars, listVars, siteVars>>

\* login() / logout() called while the guard may be on screen.
SessionLogin ==
  /\ ~EffectsPending
  /\ login /\ Called("login", NoCode, "void")
  /\ RenderAfterStoreUpdate
  /\ UNCHANGED <<hookVars, pairVars, listVars, siteVars>>

SessionLogout ==
  /\ ~EffectsPending
  /\ logout /\ Called("logout", NoCode, "void")
  /\ RenderAfterStoreUpdate
  /\ UNCHANGED <<hookVars, pairVars, listVars, siteVars>>

\* The cookie's max-age (86400 s) elapses: the browser drops it.
CookieExpire ==
  /\ cookie = CookieAuthenticated
  /\ cookie' = CookieAbsent
  /\ cookieExpired' = TRUE
  /\ UNCHANGED <<isAuthenticated, favorites, recentlyAdded, favoritesMetadata,
                 persisted, now, ops, lastCall, exportFile, exportedFrom>>
  /\ UNCHANGED <<guardVars, hookVars, pairVars, listVars, siteVars>>

\* The page is reloaded: scripts and timers of the old page are gone, the
\* store is created again and rehydrated from the persisted blob; the cookie
\* jar is the browser's and survives.
Reload ==
  /\ isAuthenticated' = persisted.isAuthenticated
  /\ favorites' = persisted.favorites
  /\ recentlyAdded' = persisted.recentlyAdded
  /\ favoritesMetadata' = persisted.favoritesMetadata
  /\ UNCHANGED <<persisted, cookie, cookieExpired, now, ops, lastCall,
                 exportFile, exportedFrom>>
  /\ Unmounted
  /\ timers' = 0
  /\ UNCHANGED <<requireAuth, mounts, lastPush>>
  /\ UNCHANGED <<hookVars, pairVars, listVars, siteVars>>

\* ------------------------------------------- useDebounce, useDebouncedSearch

SearchTerms == {"", "a", "ab", "abc"}
\* Delays passed to the hook; setTimeout treats a negative delay as 0.
Delays == -1..MaxDelay
TimeoutDelay(d) == IF d < 0 THEN 0 ELSE d

\* setTimeout(() => setDebouncedValue(value), delay): the callback closes
\* over the value of the render it was scheduled in.
SetTimeout(pending, id, value, d) ==
  pending \cup {[id |-> id, remaining |-> TimeoutDelay(d), value |-> value]}

\* Faulty variant: the cleanup forgets to clear the timeout.
ClearTimeout_NoOp(pending, id) == pending

\* clearTimeout(timer)
ClearTimeout(pending, id) == {t \in pending : t.id # id}

\* Faulty variant: no cleanup runs when the hook is unmounted.
UnmountCleanup_Forgets(pending, id) == pending

\* The effect's cleanup when the hook is unmounted.
UnmountCleanup(pending, id) == ClearTimeout(pending, id)

\* Faulty variant: the effect looks at the raw term only.
SearchingEffect_IgnoresDebounced(term, debounced) == term # ""

\* if (searchTerm !== debouncedSearchTerm) setIsSearching(true) else (false)
SearchingEffect(term, debounced) == term # debounced

\* The hook is not rendered yet.
InitHook ==
  /\ hook = "unborn"
  /\ searchTerm = ""
  /\ delay = 0
  /\ debouncedValue = ""
  /\ isSearching = FALSE
  /\ timeouts = {}
  /\ timer = 0
  /\ nextId = 1
  /\ changes = 0
  /\ burstBase = ""
  /\ burstLen = 0
  /\ settles = 0
  /\ cleared = FALSE

\* First render and its effects: debouncedValue starts as the value, the
\* first timeout is scheduled, isSearching is computed (false).
HookMount ==
  \E d \in Delays :
    /\ hook = "unborn"
    /\ hook' = "mounted"
    /\ searchTerm' = ""
    /\ delay' = d
    /\ debouncedValue' = ""
    /\ timeouts' = SetTimeout(timeouts, nextId, "", d)
    /\ timer' = nextId
    /\ nextId' = nextId + 1
    /\ isSearching' = SearchingEffect("", "")
    /\ cleared' = FALSE
    /\ burstBase' = ""
    /\ burstLen' = 0
    /\ settles' = 0
    /\ UNCHANGED changes
    /\ UNCHANGED <<storeVars, guardVars, pairVars, listVars, siteVars>>

\* Re-render with a changed value or delay: the effect's cleanup clears the
\* previous timeout and the effect schedules a new one.
Reschedule(value, d) ==
  /\ timeouts' = SetTimeout(ClearTimeout(timeouts, timer), nextId, value, d)
  /\ timer' = nextId
  /\ nextId' = nextId + 1
  /\ burstBase' = IF timeouts = {} THEN debouncedValue ELSE burstBase
  /\ burstLen' = IF timeouts = {} THEN 1 ELSE burstLen + 1
  /\ settles' = IF timeouts = {} THEN 0 ELSE settles
  /\ changes' = changes + 1

ChangeValue ==
  \E v \in SearchTerms :
    /\ hook = "mounted" /\ changes < MaxChanges
    /\ v # searchTerm
    /\ searchTerm' = v
    /\ Reschedule(v, delay)
    /\ isSearching' = SearchingEffect(v, debouncedValue)
    /\ cleared' = FALSE
    /\ UNCHANGED <<hook, delay, debouncedValue>>
    /\ UNCHANGED <<storeVars, guardVars, pairVars, listVars, siteVars>>

ChangeDelay ==
  \E d \in Delays :
    /\ hook = "mounted" /\ changes < MaxChanges
    /\ d # delay
    /\ delay' = d
    /\ Reschedule(searchTerm, d)
    /\ UNCHANGED <<hook, searchTerm, debouncedValue, isSearching, cleared>>
    /\ UNCHANGED <<storeVars, guardVars, pairVars, listVars, siteVars>>

\* A timeout's callback runs: setDebouncedValue(value). When the value
\* differs the hook re-renders and isSearching is computed again.
TimeoutFires ==
  \E t \in timeouts :
    /\ t.remaining = 0
    /\ timeouts' = timeouts \ {t}
    /\ debouncedValue' = t.value
    /\ settles' = settles + 1
    /\ IF t.value # debouncedValue /\ hook = "mounted"
         THEN /\ isSearching' = SearchingEffect(searchTerm, t.value)
              /\ cleared' = FALSE
         ELSE UNCHANGED <<isSearching, cleared>>
    /\ UNCHANGED <<hook, searchTerm, delay, timer, nextId, changes, burstBase,
                   burstLen>>
    /\ UNCHANGED <<storeVars, guardVars, pairVars, listVars, siteVars>>

\* Time passes by one unit; a timeout that is due runs first.
TimePasses ==
  /\ timeouts # {}
  /\ \A t \in timeouts : t.remaining > 0
  /\ timeouts' = {[t EXCEPT !.remaining = t.remaining - 1] : t \in timeouts}
  /\ UNCHANGED <<hook, searchTerm, delay, debouncedValue, isSearching, timer,
                 nextId, changes, burstBase, burstLen, settles, cleared>>
  /\ UNCHANGED <<storeVars, guardVars, pairVars, listVars, siteVars>>

\* clearSearch(): setIsSearching(false).
ClearSearch ==
  /\ hook = "mounted"
  /\ isSearching' = FALSE
  /\ cleared' = (cleared \/ isSearching)
  /\ UNCHANGED <<hook, searchTerm, delay, debouncedValue, timeouts, timer,
                 nextId, changes, burstBase, burstLen, settles>>
  /\ UNCHANGED <<storeVars, guardVars, pairVars, listVars, siteVars>>

\* The consumer is discarded: the effect's cleanup runs.
HookUnmount ==
  /\ hook = "mounted"
  /\ hook' = "unmounted"
  /\ timeouts' = UnmountCleanup(timeouts, timer)
  /\ UNCHANGED <<searchTerm, delay, debouncedValue, isSearching, timer,
                 nextId, changes, burstBase, burstLen, settles, cleared>>
  /\ UNCHANGED <<storeVars, guardVars, pairVars, listVars, siteVars>>

\* ------------------------------------------------- the store on its own

Login == login /\ Called("login", NoCode, "void") /\ UNCHANGED <<guardVars, hookVars, pairVars, listVars, siteVars>>
Logout == logout /\ Called("logout", NoCode, "void") /\ UNCHANGED <<guardVars, hookVars, pairVars, listVars, siteVars>>
ToggleFavorite ==
  \E code \in InputCodes :
    /\ toggleFavorite(code) /\ Called("toggleFavorite", code, "void")
    /\ UNCHANGED <<guardVars, hookVars, pairVars, listVars, siteVars>>
AddToFavorites ==
  \E code \in InputCodes, notes \in InputNotes \cup {NoNotes} :
    /\ addToFavorites(code, notes) /\ Called("addToFavorites", code, "void")
    /\ UNCHANGED <<guardVars, hookVars, pairVars, listVars, siteVars>>
RemoveFromFavorites ==
  \E code \in InputCodes :
    /\ removeFromFavorites(code) /\ Called("removeFromFavorites", code, "void")
    /\ UNCHANGED <<guardVars, hookVars, pairVars, listVars, siteVars>>
AddFavoriteNote ==
  \E code \in InputCodes, note \in InputNotes :
    /\ addFavoriteNote(code, note) /\ Called("addFavoriteNote", code, "void")
    /\ UNCHANGED <<guardVars, hookVars, pairVars, listVars, siteVars>>
RemoveFavoriteNote ==
  \E code \in InputCodes :
    /\ removeFavoriteNote(code) /\ Called("removeFavoriteNote", code, "void")
    /\ UNCHANGED <<guardVars, hookVars, pairVars, listVars, siteVars>>
ClearAllFavorites ==
  /\ clearAllFavorites /\ Called("clearAllFavorites", NoCode, "void")
  /\ UNCHANGED <<guardVars, hookVars, pairVars, listVars, siteVars>>
ImportFavorites ==
  \E doc \in ImportDocs :
    /\ importFavorites(doc)
    /\ Called("importFavorites", doc, ReturnText(ImportOutcome(doc)))
    /\ UNCHANGED <<guardVars, hookVars, pairVars, listVars, siteVars>>
ClockTick == Tick /\ UNCHANGED <<guardVars, hookVars, pairVars, listVars, siteVars>>

\* handleExport: the text exportFavorites() returns is downloaded as a file.
ExportFavorites ==
  /\ exportFile' = exportFavorites(favorites, favoritesMetadata, now)
  /\ exportedFrom' = Elems(favorites)
  /\ Called("exportFavorites", NoCode, "text")
  /\ NoSet
  /\ UNCHANGED <<cookie, cookieExpired, now>>
  /\ UNCHANGED <<guardVars, hookVars, pairVars, listVars, siteVars>>

\* handleImport on the downloaded file.
ImportExported ==
  /\ exportFile # NoFile
  /\ importFavorites(exportFile)
  /\ Called("importFavorites", exportFile, ReturnText(ImportOutcome(exportFile)))
  /\ UNCHANGED <<guardVars, hookVars, pairVars, listVars, siteVars>>

\* ------------------------------------------------ CountryListContainer

\* Texts are sequences of characters, so that trimming, lowercasing and
\* substring search are computed and not assumed.
Text_Empty == <<>>

UpperLetters == <<"A", "B", "C", "D", "E", "F", "G", "H", "I", "J", "K", "L", "M",
                  "N", "O", "P", "Q", "R", "S", "T", "U", "V", "W", "X", "Y", "Z">>
LowerLetters == <<"a", "b", "c", "d", "e", "f", "g", "h", "i", "j", "k", "l", "m",
                  "n", "o", "p", "q", "r", "s", "t", "u", "v", "w", "x", "y", "z">>

\* String.prototype.toLowerCase, character by character.
TextToLowerCase(text) ==
  [i \in 1..Len(text) |->
     IF \E k \in 1..Len(UpperLetters) : UpperLetters[k] = text[i]
       THEN LowerLetters[CHOOSE k \in 1..Len(UpperLetters) : UpperLetters[k] = text[i]]
       ELSE text[i]]

\* String.prototype.trim
RECURSIVE TextTrim(_)
TextTrim(text) ==
  IF text = <<>> THEN text
  ELSE IF Head(text) = " " THEN TextTrim(Tail(text))
  ELSE IF text[Len(text)] = " " THEN TextTrim(SubSeq(text, 1, Len(text) - 1))
  ELSE text

\* String.prototype.includes
TextIncludes(text, part) ==
  \E i \in 0..(Len(text) - Len(part)) : SubSeq(text, i + 1, i + Len(part)) = part

\* The countries prop: records of the REST Countries API, populations in
\* units of the model. Antarctica comes without capital and shares its
\* population with Chad.
Peru ==
  [cca2 |-> "pe",
   name |-> [common |-> <<"P", "e", "r", "u">>,
             official |-> <<"R", "e", "p", "u", "b", "l", "i", "c", " ", "o", "f", " ", "P", "e", "r", "u">>],
   capital |-> [defined |-> TRUE,
                names |-> <<<<"L", "i", "m", "a">>>>],
   region |-> <<"A", "m", "e", "r", "i", "c", "a", "s">>,
   population |-> 3]
Chad ==
  [cca2 |-> "td",
   name |-> [common |-> <<"C", "h", "a", "d">>,
             official |-> <<"R", "e", "p", "u", "b", "l", "i", "c", " ", "o", "f", " ", "C", "h", "a", "d">>],
   capital |-> [defined |-> TRUE,
                names |-> <<<<"N", "'", "D", "j", "a", "m", "e", "n", "a">>>>],
   region |-> <<"A", "f", "r", "i", "c", "a">>,
   population |-> 1]
Bolivia ==
  [cca2 |-> "bo",
   name |-> [common |-> <<"B", "o", "l", "i", "v", "i", "a">>,
             official |-> <<"P", "l", "u", "r", "i", "n", "a", "t", "i", "o", "n", "a", "l", " ", "S", "t", "a", "t", "e", " ", "o", "f", " ", "B", "o", "l", "i", "v", "i", "a">>],
   capital |-> [defined |-> TRUE,
                names |-> <<<<"S", "u", "c", "r", "e">>,
                            <<"L", "a", " ", "P", "a", "z">>>>],
   region |-> <<"A", "m", "e", "r", "i", "c", "a", "s">>,
   population |-> 2]
Antarctica ==
  [cca2 |-> "aq",
   name |-> [common |-> <<"A", "n", "t", "a", "r", "c", "t", "i", "c", "a">>,
             official |-> <<"A", "n", "t", "a", "r", "c", "t", "i", "c", "a">>],
   capital |-> [defined |-> FALSE, names |-> <<>>],
   region |-> <<"A", "n", "t", "a", "r", "c", "t", "i", "c">>,
   population |-> 1]

Catalog == {Peru, Chad, Bolivia, Antarctica}

\* The lists of distinct countries of at most MaxCountries entries.
CountryLists ==
  UNION {{list \in [1..n -> Catalog] :
            \A i, j \in 1..n : i # j => list[i] # list[j]} : n \in 0..MaxCountries}

\* What is typed into the search box and what the region dropdown offers.
ListTerms ==
  {Text_Empty, <<" ">>, <<"P", "E", "R">>, <<"l", "a", " ", "p">>, <<"a", "f", "r", "i", "c", "a", " ">>, <<"r", "e", "p", "u", "b", "l", "i", "c">>}
ListRegions == {Text_Empty, <<"A", "m", "e", "r", "i", "c", "a", "s">>, <<"A", "f", "r", "i", "c", "a">>, <<"A", "s", "i", "a">>}
SortKeys == {"name", "population", "area"}
SortOrders == {"asc", "desc"}

\* country.region === selectedRegion, or no region selected.
matchesRegion(country, region) ==
  region = Text_Empty \/ country.region = region

\* Faulty variant: only the common name is searched.
matchesSearch_CommonNameOnly(country, term) ==
  \/ TextTrim(term) = Text_Empty
  \/ TextIncludes(TextToLowerCase(country.name.common), TextToLowerCase(term))

\* !term.trim() || common, official, some capital or region includes the
\* lowercased term (the term is matched as typed, not trimmed).
matchesSearch(country, term) ==
  \/ TextTrim(term) = Text_Empty
  \/ TextIncludes(TextToLowerCase(country.name.common), TextToLowerCase(term))
  \/ TextIncludes(TextToLowerCase(country.name.official), TextToLowerCase(term))
  \/ /\ country.capital.defined
     /\ \E k \in 1..Len(country.capital.names) :
          TextIncludes(TextToLowerCase(country.capital.names[k]),
                       TextToLowerCase(term))
  \/ TextIncludes(TextToLowerCase(country.region), TextToLowerCase(term))

\* countries.filter(...)
Filtered(list, region, term) ==
  SelectSeq(list, LAMBDA c : matchesRegion(c, region) /\ matchesSearch(c, term))

\* Rank of a character in the collation of localeCompare, for the blanks,
\* apostrophes and letters of the catalog.
CollationRank(ch) ==
  IF ch = " " THEN 0
  ELSE IF ch = "'" THEN 1
  ELSE 1 + CHOOSE k \in 1..Len(LowerLetters) :
             LowerLetters[k] = TextToLowerCase(<<ch>>)[1]

\* a.localeCompare(b): negative, zero or positive.
RECURSIVE localeCompare(_, _)
localeCompare(a, b) ==
  IF a = <<>> /\ b = <<>> THEN 0
  ELSE IF a = <<>> THEN -1
  ELSE IF b = <<>> THEN 1
  ELSE IF CollationRank(Head(a)) < CollationRank(Head(b)) THEN -1
  ELSE IF CollationRank(Head(a)) > CollationRank(Head(b)) THEN 1
  ELSE localeCompare(Tail(a), Tail(b))

\* Faulty variant: the sort order is not applied.
Comparison_IgnoresOrder(a, b, key, order) ==
  IF key = "name" THEN localeCompare(a.name.common, b.name.common)
  ELSE a.population - b.population

\* The comparator given to sort: by name, or by population (also for
\* 'area'), negated for 'desc'.
Comparison(a, b, key, order) ==
  LET comparison == IF key = "name"
                      THEN localeCompare(a.name.common, b.name.common)
                      ELSE a.population - b.population
  IN  IF order = "asc" THEN comparison ELSE -comparison

\* Array.prototype.sort(compare): a stable sort. Each element is placed
\* behind the elements already placed that do not compare greater.
InsertSorted(sorted, x, key, order) ==
  LET behind == {i \in 1..Len(sorted) : Comparison(sorted[i], x, key, order) > 0}
      at == IF behind = {} THEN Len(sorted) + 1
            ELSE CHOOSE i \in behind : \A k \in behind : i <= k
  IN  SubSeq(sorted, 1, at - 1) \o <<x>> \o SubSeq(sorted, at, Len(sorted))

RECURSIVE Sorted(_, _, _)
Sorted(list, key, order) ==
  IF list = <<>> THEN <<>>
  ELSE InsertSorted(Sorted(SubSeq(list, 1, Len(list) - 1), key, order),
                    list[Len(list)], key, order)

\* The useMemo of the container.
filteredAndSortedCountries(list, region, term, key, order) ==
  Sorted(Filtered(list, region, term), key, order)

\* The list page has not been rendered yet.
InitList ==
  /\ listMounted = FALSE
  /\ countries = <<>>
  /\ debouncedSearchTerm = Text_Empty
  /\ selectedRegion = Text_Empty
  /\ sortBy = "name"
  /\ sortOrder = "asc"
  /\ shown = <<>>

\* ------------------------------------------------------------- lib/api

\* Longest response array of a REST Countries request.
MaxRecords == 2

\* A field of a response record: absent, an array of strings, or a value of
\* another type (a string where the schema wants an array).
Absent == [kind |-> "absent", items |-> <<>>]
ArrayOf(items) == [kind |-> "array", items |-> items]
NotAnArray == [kind |-> "string", items |-> <<>>]

\* A response record, by what the zod schemas look at: the required keys
\* (name.common/official, cca3, region, population, flags.png/svg) and the
\* optional arrays capital and borders.
Record(cca2, hasName, populationIsNumber, flagsAreUrls, capital, borders) ==
  [cca2 |-> cca2, hasName |-> hasName,
   populationIsNumber |-> populationIsNumber, flagsAreUrls |-> flagsAreUrls,
   capital |-> capital, borders |-> borders]

\* A complete record with a capital and two neighbours.
UsRecord ==
  Record("US", TRUE, TRUE, TRUE, ArrayOf(<<"Washington, D.C.">>),
         ArrayOf(<<"CAN", "MEX">>))
\* A complete record without the optional keys capital and borders.
AqRecord == Record("AQ", TRUE, TRUE, TRUE, Absent, Absent)
\* { cca2: 'US' }: the required fields are missing.
IncompleteRecord == Record("US", FALSE, FALSE, FALSE, Absent, Absent)
\* A record whose borders key holds a string.
OddBordersRecord ==
  Record("MX", TRUE, TRUE, TRUE, ArrayOf(<<"Mexico City">>), NotAnArray)

ResponseRecords == {UsRecord, AqRecord, IncompleteRecord, OddBordersRecord}

\* z.array(z.string()).optional(): undefined or an array.
OptionalArray(field) == field.kind \in {"absent", "array"}

\* countryBasicSchema.safeParse(item).success
safeValidateCountryBasic(item) ==
  /\ item.hasName
  /\ item.populationIsNumber
  /\ item.flagsAreUrls
  /\ OptionalArray(item.capital)

\* result.data of countryBasicSchema: capital defaults to [], keys the
\* schema does not name are stripped.
BasicData(item) ==
  [item EXCEPT !.capital = IF item.capital.kind = "absent"
                             THEN ArrayOf(<<>>) ELSE item.capital,
               !.borders = Absent]

\* countryDetailSchema.safeParse(item).success
safeValidateCountryDetail(item) ==
  /\ item.hasName
  /\ item.populationIsNumber
  /\ item.flagsAreUrls
  /\ OptionalArray(item.capital)
  /\ OptionalArray(item.borders)

\* result.data of countryDetailSchema: every key is one the schema names,
\* none has a default.
DetailData(item) == item

\* What response.json() resolves to: an array of records, or a value that
\* is no array (an object such as { status: 404, message: 'Not Found' }).
JsonArray(items) == [isArray |-> TRUE, items |-> items]
JsonObject == [isArray |-> FALSE, items |-> <<>>]

ResponseArrays ==
  UNION {[1..n -> ResponseRecords] : n \in 0..MaxRecords}

\* What fetch(url) can do: reject, answer with a status that is not ok,
\* answer ok with a body that is not JSON, or answer ok with JSON.
FetchRejects == [kind |-> "rejects", status |-> 0, body |-> JsonObject]
FetchNotOk(status) == [kind |-> "notOk", status |-> status, body |-> JsonObject]
FetchBadJson == [kind |-> "badJson", status |-> 200, body |-> JsonObject]
FetchJson(body) == [kind |-> "json", status |-> 200, body |-> body]

FetchOutcomes ==
  {FetchRejects, FetchNotOk(404), FetchNotOk(500), FetchBadJson,
   FetchJson(JsonObject)}
    \cup {FetchJson(JsonArray(items)) : items \in ResponseArrays}

\* The outcome of an async function: a thrown CountryAPIError with its
\* code and status, or the value the promise resolves to.
CountryAPIError(code, status) ==
  [threw |-> TRUE, code |-> code, status |-> status, value |-> <<>>]
Resolves(value) ==
  [threw |-> FALSE, code |-> "", status |-> 0, value |-> value]

\* fetchWithErrorHandling: the value of the promise is the parsed body.
fetchWithErrorHandling(outcome) ==
  IF outcome.kind = "rejects" THEN CountryAPIError("FETCH_ERROR", 0)
  ELSE IF outcome.kind = "notOk"
    THEN CountryAPIError("HTTP_ERROR", outcome.status)
  ELSE IF outcome.kind = "badJson" THEN CountryAPIError("FETCH_ERROR", 0)
  ELSE Resolves(outcome.body)

RECURSIVE ValidatedBasic(_)
\* for (const item of data): push result.data of the items that validate.
ValidatedBasic(items) ==
  IF items = <<>> THEN <<>>
  ELSE LET rest == ValidatedBasic(Tail(items))
       IN IF safeValidateCountryBasic(Head(items))
            THEN <<BasicData(Head(items))>> \o rest
            ELSE rest

RECURSIVE ValidatedDetail(_)
ValidatedDetail(items) ==
  IF items = <<>> THEN <<>>
  ELSE LET rest == ValidatedDetail(Tail(items))
       IN IF safeValidateCountryDetail(Head(items))
            THEN <<DetailData(Head(items))>> \o rest
            ELSE rest

\* getAllCountries: a CountryAPIError thrown in the try block is rethrown,
\* anything else thrown there (for...of over a non-iterable) becomes
\* UNKNOWN_ERROR.
getAllCountries(outcome) ==
  LET data == fetchWithErrorHandling(outcome)
  IN IF data.threw THEN data
     ELSE IF ~data.value.isArray THEN CountryAPIError("UNKNOWN_ERROR", 0)
     ELSE LET validatedCountries == ValidatedBasic(data.value.items)
          IN IF Len(validatedCountries) = 0
               THEN CountryAPIError("VALIDATION_ERROR", 0)
               ELSE Resolves(validatedCountries)

\* Country codes as the router and the callers hand them over.
CodeTexts == {<<>>, <<"u", "s">>, <<"U", "S", "A">>, <<"x">>, <<" ", "m", "x">>}

\* Faulty variant: a record that fails validation counts as not found.
getCountryByCode_OneCategory(code, outcome) ==
  IF code = <<>> THEN CountryAPIError("INVALID_CODE", 400)
  ELSE LET data == fetchWithErrorHandling(outcome)
       IN IF data.threw THEN data
          ELSE IF ~data.value.isArray \/ Len(data.value.items) = 0
            THEN CountryAPIError("COUNTRY_NOT_FOUND", 404)
          ELSE IF ~safeValidateCountryDetail(data.value.items[1])
            THEN CountryAPIError("COUNTRY_NOT_FOUND", 404)
          ELSE Resolves(DetailData(data.value.items[1]))

\* getCountryByCode
getCountryByCode(code, outcome) ==
  IF code = <<>> THEN CountryAPIError("INVALID_CODE", 400)
  ELSE LET data == fetchWithErrorHandling(outcome)
       IN IF data.threw THEN data
          ELSE IF ~data.value.isArray \/ Len(data.value.items) = 0
            THEN CountryAPIError("COUNTRY_NOT_FOUND", 404)
          ELSE IF ~safeValidateCountryDetail(data.value.items[1])
            THEN CountryAPIError("VALIDATION_ERROR", 500)
          ELSE Resolves(DetailData(data.value.items[1]))

\* getCountriesByCodes: the codes are non-blank strings here (the borders of
\* a validated record), so validCodes is codes; every failure of the request
\* ends in the catch block, which returns [].
getCountriesByCodes(codes, outcome) ==
  IF Len(codes) = 0 THEN Resolves(<<>>)
  ELSE LET data == fetchWithErrorHandling(outcome)
       IN IF data.threw THEN Resolves(<<>>)
          ELSE IF ~data.value.isArray THEN Resolves(<<>>)
          ELSE Resolves(ValidatedDetail(data.value.items))

\* isValidCountryCode
isValidCountryCode(code) ==
  /\ code # <<>>
  /\ Len(TextTrim(code)) \in {2, 3}

\* A promise that has not settled.
Pending == [threw |-> FALSE, code |-> "pending", status |-> 0, value |-> <<>>]
\* No call was made, no response received.
NoOutcome == [kind |-> "none", status |-> 0, body |-> JsonObject]
NoApiCall == [fn |-> "none", code |-> <<>>, response |-> NoOutcome,
              result |-> Pending]

\* The page before a request comes in.
NoPage ==
  [stage |-> "idle", id |-> <<>>, primary |-> Pending, lookup |-> Pending,
   secondary |-> Pending, borderFetch |-> "none", view |-> "none",
   country |-> AqRecord, borderCountries |-> <<>>]

\* Faulty variant: a rejected secondary promise fails the page.
CountryPageView_NeedsBorders(primary, secondary) ==
  IF primary.threw \/ secondary.threw
    THEN [view |-> "not-found", country |-> AqRecord, borderCountries |-> <<>>]
    ELSE [view |-> "country", country |-> primary.value,
          borderCountries |-> secondary.value]

\* CountryPage after Promise.allSettled: notFound() when the country promise
\* was rejected, else the detail view with the border countries of a
\* fulfilled secondary promise or [].
CountryPageView(primary, secondary) ==
  IF primary.threw
    THEN [view |-> "not-found", country |-> AqRecord, borderCountries |-> <<>>]
    ELSE [view |-> "country", country |-> primary.value,
          borderCountries |-> IF secondary.threw THEN <<>>
                              ELSE secondary.value]

InitApi ==
  /\ apiCall = NoApiCall
  /\ page = NoPage

\* ------------------------------------------------------ toasts, the UI

\* toast.info(..., { action: { label: 'Undo', onClick: () =>
\* toggleFavorite(cca2.toLowerCase()) } })
UndoToast(code) == [action |-> "Undo", code |-> code]
\* toast.success(..., { action: { label: 'View All', ... } })
ViewAllToast == [action |-> "View All", code |-> NoCode]
\* A toast without action button.
PlainToast == [action |-> "none", code |-> NoCode]

\* The cca2 codes of the country cards on screen.
CardCodes == {"US", "CA"}

\* The root layout renders <ToastContainer /> beside the pages, so a toast
\* stays on screen across client-side navigations until its timer removes it.
ToastContainerMounted == TRUE

InitToast ==
  /\ toasts = {}
  /\ reading = NoFile

\* ------------------------------------------------------------ navigation

\* Navigations the user starts during a run.
MaxVisits == 2
\* Redirects counted per navigation; the count stops there.
MaxHops == 4

PathHome == "/"
PathLogin == "/login"
PathFavorites == "/favorites"

\* A URL of the site: the path and the value of its ?from= parameter.
Url(path, from) == [path |-> path, from |-> from]

\* A navigation under way: the URL asked for, and whether it is a
\* client-side transition (router.push) or a full page load.
Request(path, from, soft) == [path |-> path, from |-> from, soft |-> soft]
NoRequest == Request("", "", FALSE)

\* Redirects since the user's last navigation, counted up to MaxHops.
Hop(n) == IF n < MaxHops THEN n + 1 ELSE n

\* Faulty variant: every arrival mounts the page anew.
KeepsPage_Never(request, current) == FALSE

\* A client-side transition that ends on the URL already shown keeps the
\* page component mounted, with its state; its effects do not run again
\* (their dependencies are unchanged).
KeepsPage(request, current) ==
  /\ request.soft
  /\ request.path = current.path
  /\ request.from = current.from

\* middleware: protectedPaths.some(path => pathname.startsWith(path))
isProtectedPath(path) == path = PathFavorites

\* searchParams.get('from') || '/'
returnUrl(url) == IF url.from = "" THEN PathHome ELSE url.from

InitNav ==
  /\ location = Url(PathHome, "")
  /\ inFlight = NoRequest
  /\ loginPage = "absent"
  /\ visits = 0
  /\ hops = 0

\* No pair of calls is under observation.
InitPair ==
  /\ phase = 0
  /\ before = [favorites |-> <<>>, favoritesMetadata |-> EmptyObject]

Init ==
  /\ InitStore /\ InitGuard /\ InitHook /\ InitPair /\ InitList
  /\ InitApi /\ InitToast /\ InitNav

Next ==
  \/ Login
  \/ Logout
  \/ ToggleFavorite
  \/ AddToFavorites
  \/ RemoveFromFavorites
  \/ AddFavoriteNote
  \/ RemoveFavoriteNote
  \/ ClearAllFavorites
  \/ ImportFavorites
  \/ ClockTick

Spec == Init /\ [][Next]_vars

\* ------------------------------------- the store with export and import

NextTransfer ==
  \/ Next
  \/ ExportFavorites
  \/ ImportExported

SpecTransfer == Init /\ [][NextTransfer]_vars

\* ------------------------------------- CountryListContainer, its events

\* The container is mounted with its countries prop: nothing typed, no
\* region, by name ascending.
ListMount ==
  \E list \in CountryLists :
    /\ ~listMounted
    /\ listMounted' = TRUE
    /\ countries' = list
    /\ shown' = filteredAndSortedCountries(list, selectedRegion,
                                           debouncedSearchTerm, sortBy, sortOrder)
    /\ UNCHANGED <<debouncedSearchTerm, selectedRegion, sortBy, sortOrder>>
    /\ UNCHANGED <<storeVars, guardVars, hookVars, pairVars, siteVars>>

\* The render after a state change recomputes the memo.
Rerender ==
  /\ listMounted
  /\ UNCHANGED <<listMounted, countries>>
  /\ shown' = filteredAndSortedCountries(countries, selectedRegion',
                                         debouncedSearchTerm', sortBy', sortOrder')
  /\ UNCHANGED <<storeVars, guardVars, hookVars, pairVars, siteVars>>

\* setSearchTerm reaches the memo through useDebouncedSearch only: the
\* debounced term takes what was typed once the delay has passed.
SearchSettles ==
  \E term \in ListTerms :
    /\ term # debouncedSearchTerm
    /\ debouncedSearchTerm' = term
    /\ UNCHANGED <<selectedRegion, sortBy, sortOrder>>
    /\ Rerender

SetSelectedRegion ==
  \E region \in ListRegions :
    /\ region # selectedRegion
    /\ selectedRegion' = region
    /\ UNCHANGED <<debouncedSearchTerm, sortBy, sortOrder>>
    /\ Rerender

SetSortBy ==
  \E key \in SortKeys :
    /\ key # sortBy
    /\ sortBy' = key
    /\ UNCHANGED <<debouncedSearchTerm, selectedRegion, sortOrder>>
    /\ Rerender

SetSortOrder ==
  \E order \in SortOrders :
    /\ order # sortOrder
    /\ sortOrder' = order
    /\ UNCHANGED <<debouncedSearchTerm, selectedRegion, sortBy>>
    /\ Rerender

\* clearAllFilters: setSearchTerm(''); setSelectedRegion(''). The region is
\* cleared at once, the debounced term follows when the search settles.
ClearAllFilters ==
  /\ selectedRegion' = Text_Empty
  /\ UNCHANGED <<debouncedSearchTerm, sortBy, sortOrder>>
  /\ Rerender

NextList ==
  \/ ListMount
  \/ SearchSettles
  \/ SetSelectedRegion
  \/ SetSortBy
  \/ SetSortOrder
  \/ ClearAllFilters

SpecList == Init /\ [][NextList]_vars

\* ------------------------------------------- the store and its getters

\* A component reads the recently added codes; the store is not changed.
GetRecentlyAdded ==
  \E limit \in Limits :
    /\ lastCall' = [op |-> "getRecentlyAdded", arg |-> limit,
                    ret |-> getRecentlyAdded(limit)]
    /\ NoSet
    /\ UNCHANGED <<cookie, cookieExpired, now, ops, exportFile, exportedFrom>>
    /\ UNCHANGED <<guardVars, hookVars, pairVars, listVars, siteVars>>

\* Additions, toggles, removals and imports, with reads in between.
NextQuery ==
  \/ ToggleFavorite
  \/ AddToFavorites
  \/ RemoveFromFavorites
  \/ ImportFavorites
  \/ ClockTick
  \/ GetRecentlyAdded

SpecQuery == Init /\ [][NextQuery]_vars

\* ------------------------------------ two toggles of one code in a row

\* Any store operation, before the pair of toggles begins.
PairIdle == phase = 0 /\ Next

\* toggleFavorite(x), the first call of the pair.
ToggleFirst ==
  \E code \in InputCodes :
    /\ phase = 0
    /\ toggleFavorite(code) /\ Called("toggleFavorite", code, "void")
    /\ phase' = 1
    /\ before' = [favorites |-> favorites, favoritesMetadata |-> favoritesMetadata]
    /\ UNCHANGED <<guardVars, hookVars, listVars, siteVars>>

\* toggleFavorite(x) again, with the same argument.
ToggleSecond ==
  /\ phase = 1
  /\ toggleFavorite(lastCall.arg) /\ Called("toggleFavorite", lastCall.arg, "void")
  /\ phase' = 2
  /\ UNCHANGED before
  /\ UNCHANGED <<guardVars, hookVars, listVars, siteVars>>

\* Date.now() advances between the two calls.
PairTick == phase = 1 /\ ClockTick

NextPair ==
  \/ PairIdle
  \/ ToggleFirst
  \/ PairTick
  \/ ToggleSecond

SpecPair == Init /\ [][NextPair]_vars

\* -------------------------------------------- the store across reloads

\* The page is reloaded: the store is created again and rehydrated from the
\* blob under 'aion-country-explorer-storage'.
ReloadStore ==
  /\ isAuthenticated' = persisted.isAuthenticated
  /\ favorites' = persisted.favorites
  /\ recentlyAdded' = persisted.recentlyAdded
  /\ favoritesMetadata' = persisted.favoritesMetadata
  /\ lastCall' = [op |-> "reload", arg |-> NoCode, ret |-> "void"]
  /\ UNCHANGED <<persisted, cookie, cookieExpired, now, ops, exportFile,
                 exportedFrom>>
  /\ UNCHANGED <<guardVars, hookVars, pairVars, listVars, siteVars>>

NextReload ==
  \/ Next
  \/ ReloadStore

SpecReload == Init /\ [][NextReload]_vars

\* ------------------------------------------- the store behind the UI

\* A handler's store call; handlers are not counted as operations.
Handled(op, arg) ==
  /\ lastCall' = [op |-> op, arg |-> arg, ret |-> "void"]
  /\ UNCHANGED ops

\* CountryCard, handleFavoriteClick: nothing happens unless authenticated
\* (the button is disabled); the toast offers Undo after a removal and
\* View All after an addition.
CardFavoriteClick ==
  \E cca2 \in CardCodes :
    LET code == ToLowerCase(cca2)
        wasAlreadyFavorited == Includes(favorites, code)
    IN /\ isAuthenticated
       /\ toggleFavorite(code) /\ Handled("toggleFavorite", code)
       /\ toasts' = toasts \cup {IF wasAlreadyFavorited THEN UndoToast(code)
                                                         ELSE ViewAllToast}
       /\ UNCHANGED reading
       /\ UNCHANGED <<guardVars, hookVars, pairVars, listVars, apiVars, navVars>>

\* CountryDetailClient, handleFavoriteToggle.
DetailFavoriteToggle ==
  \E cca2 \in CardCodes :
    /\ isAuthenticated
    /\ toggleFavorite(ToLowerCase(cca2))
    /\ Handled("toggleFavorite", ToLowerCase(cca2))
    /\ UNCHANGED toastVars
    /\ UNCHANGED <<guardVars, hookVars, pairVars, listVars, apiVars, navVars>>

\* ToastItem: <button onClick={toast.action.onClick}> of an Undo toast; the
\* toast stays until its timer removes it.
ToastUndoClick ==
  \E t \in toasts :
    /\ ToastContainerMounted
    /\ t.action = "Undo"
    /\ toggleFavorite(t.code) /\ Handled("toggleFavorite", t.code)
    /\ UNCHANGED toastVars
    /\ UNCHANGED <<guardVars, hookVars, pairVars, listVars, apiVars, navVars>>

\* The View All button: window.location.href = '/favorites' loads the page
\* anew; the toast store and the FileReader of the old page are gone.
ToastViewAllClick ==
  \E t \in toasts :
    /\ ToastContainerMounted
    /\ t.action = "View All"
    /\ toasts' = {}
    /\ reading' = NoFile
    /\ NoSet /\ Handled("reload", NoCode)
    /\ UNCHANGED <<cookie, cookieExpired, now, exportFile, exportedFrom>>
    /\ UNCHANGED <<guardVars, hookVars, pairVars, listVars, apiVars, navVars>>

\* addToast's setTimeout removes the toast after its duration.
ToastExpires ==
  \E t \in toasts :
    /\ toasts' = toasts \ {t}
    /\ UNCHANGED reading
    /\ UNCHANGED <<storeVars, guardVars, hookVars, pairVars, listVars,
                   apiVars, navVars>>

\* Header, handleLogout (the button is rendered when authenticated): the
\* cookie is cleared, logout() is called, router.push('/').
HeaderLogout ==
  /\ isAuthenticated
  /\ logout /\ Handled("logout", NoCode)
  /\ UNCHANGED toastVars
  /\ UNCHANGED <<guardVars, hookVars, pairVars, listVars, apiVars, navVars>>

\* LoginPage, handleSubmit with the demo credentials.
LoginSubmit ==
  /\ ~isAuthenticated
  /\ login /\ Handled("login", NoCode)
  /\ UNCHANGED toastVars
  /\ UNCHANGED <<guardVars, hookVars, pairVars, listVars, apiVars, navVars>>

\* FavoritesClient, handleImport: the page is behind ProtectedRoute; the
\* chosen file is handed to a FileReader.
ImportFileChosen ==
  \E doc \in ImportDocs :
    /\ isAuthenticated
    /\ reading = NoFile
    /\ reading' = doc
    /\ UNCHANGED toasts
    /\ UNCHANGED <<storeVars, guardVars, hookVars, pairVars, listVars,
                   apiVars, navVars>>

\* reader.onload: importFavorites(content) and a toast.
ImportFileRead ==
  /\ reading # NoFile
  /\ importFavorites(reading) /\ Handled("importFavorites", reading)
  /\ reading' = NoFile
  /\ toasts' = toasts \cup {PlainToast}
  /\ UNCHANGED <<guardVars, hookVars, pairVars, listVars, apiVars, navVars>>

\* FavoritesClient, handleClearAll, confirmed.
ClearAllConfirmed ==
  /\ isAuthenticated
  /\ favorites # <<>>
  /\ clearAllFavorites /\ Handled("clearAllFavorites", NoCode)
  /\ toasts' = toasts \cup {PlainToast}
  /\ UNCHANGED reading
  /\ UNCHANGED <<guardVars, hookVars, pairVars, listVars, apiVars, navVars>>

NextUI ==
  \/ CardFavoriteClick
  \/ DetailFavoriteToggle
  \/ ToastUndoClick
  \/ ToastViewAllClick
  \/ ToastExpires
  \/ HeaderLogout
  \/ LoginSubmit
  \/ ImportFileChosen
  \/ ImportFileRead
  \/ ClearAllConfirmed

SpecUI == Init /\ [][NextUI]_vars

\* ------------------------------------------ navigation and redirects

\* The user opens a page: a typed URL or a reload (full load), or a link
\* (client-side transition).  Navigations are taken one at a time: the user
\* starts one while looking at a page, not while the browser is still on its
\* way to another.
UserNavigates ==
  \E path \in {PathHome, PathLogin, PathFavorites}, soft \in BOOLEAN :
    /\ visits < MaxVisits
    /\ inFlight = NoRequest
    /\ ~EffectsPending /\ loginPage # "effectDue"
    /\ visits' = visits + 1
    /\ hops' = 0
    /\ inFlight' = Request(path, "", soft)
    /\ UNCHANGED <<location, loginPage>>
    /\ UNCHANGED <<storeVars, guardVars, hookVars, pairVars, listVars,
                   apiVars, toastVars>>

\* middleware: a protected path without the aion-auth cookie is answered
\* with a redirect to /login?from=<path>, which the browser follows.
MiddlewareRedirects ==
  /\ inFlight # NoRequest
  /\ isProtectedPath(inFlight.path)
  /\ cookie # CookieAuthenticated
  /\ inFlight' = Request(PathLogin, inFlight.path, inFlight.soft)
  /\ hops' = Hop(hops)
  /\ UNCHANGED <<location, loginPage, visits>>
  /\ UNCHANGED <<storeVars, guardVars, hookVars, pairVars, listVars,
                 apiVars, toastVars>>

\* middleware answers NextResponse.next() and the page is shown: the login
\* page mounts with its effect to run, /favorites mounts its ProtectedRoute;
\* a full load also discards the timers of the page before.
PageArrives ==
  /\ inFlight # NoRequest
  /\ ~(isProtectedPath(inFlight.path) /\ cookie # CookieAuthenticated)
  /\ ~EffectsPending /\ loginPage # "effectDue"
  /\ location' = Url(inFlight.path, inFlight.from)
  /\ inFlight' = NoRequest
  /\ IF KeepsPage(inFlight, location)
       THEN UNCHANGED <<loginPage, guardVars>>
       ELSE /\ loginPage' = IF inFlight.path = PathLogin THEN "effectDue"
                                                         ELSE "absent"
            /\ IF inFlight.path = PathFavorites
                 THEN /\ mounted' = TRUE
                      /\ isHydrated' = FALSE
                      /\ isRedirecting' = FALSE
                      /\ effectDue' = FALSE
                      /\ view' = Render(FALSE, FALSE, requireAuth, isAuthenticated)
                 ELSE Unmounted
            /\ timers' = IF inFlight.soft THEN timers ELSE 0
            /\ UNCHANGED <<requireAuth, mounts, lastPush>>
  /\ UNCHANGED <<visits, hops>>
  /\ UNCHANGED <<storeVars, hookVars, pairVars, listVars, apiVars, toastVars>>

\* LoginPage: useEffect(() => { if (isAuthenticated) router.push(returnUrl) },
\* [isAuthenticated, router, returnUrl]).
LoginEffect ==
  /\ loginPage = "effectDue"
  /\ loginPage' = "form"
  /\ IF isAuthenticated
       THEN /\ inFlight' = Request(returnUrl(location), "", TRUE)
            /\ hops' = Hop(hops)
       ELSE UNCHANGED <<inFlight, hops>>
  /\ UNCHANGED <<location, visits>>
  /\ UNCHANGED <<storeVars, guardVars, hookVars, pairVars, listVars,
                 apiVars, toastVars>>

\* ProtectedRoute's timeout fires: router.push('/login?from=' + the path the
\* guard was on when the effect ran).
GuardPush ==
  /\ timers > 0 /\ ~EffectsPending
  /\ timers' = timers - 1
  /\ lastPush' = [fired |-> TRUE, authenticated |-> isAuthenticated,
                  mounted |-> mounted]
  /\ inFlight' = Request(PathLogin, PathFavorites, TRUE)
  /\ hops' = Hop(hops)
  /\ UNCHANGED <<mounted, requireAuth, isHydrated, isRedirecting, effectDue,
                 view, mounts>>
  /\ UNCHANGED <<location, loginPage, visits>>
  /\ UNCHANGED <<storeVars, hookVars, pairVars, listVars, apiVars, toastVars>>

\* LoginPage, handleSubmit with the demo credentials: the cookie is set,
\* login() is called and router.push(returnUrl); the effect is due again,
\* isAuthenticated having changed.
FormLogin ==
  /\ loginPage = "form"
  /\ ~isAuthenticated
  /\ visits < MaxVisits
  /\ visits' = visits + 1
  /\ login /\ Handled("login", NoCode)
  /\ loginPage' = "effectDue"
  /\ inFlight' = Request(returnUrl(location), "", TRUE)
  /\ hops' = 0
  /\ UNCHANGED location
  /\ UNCHANGED <<guardVars, hookVars, pairVars, listVars, apiVars, toastVars>>

\* The browser's site storage is cleared while the cookie is kept, and the
\* page is loaded again: the store starts from its initial state.
StorageCleared ==
  /\ isAuthenticated
  /\ visits < MaxVisits
  /\ ~EffectsPending /\ loginPage # "effectDue"
  /\ visits' = visits + 1
  /\ SetState(FALSE, <<>>, <<>>, EmptyObject)
  /\ Handled("create", NoCode)
  /\ UNCHANGED <<cookie, cookieExpired, now, exportFile, exportedFrom>>
  /\ inFlight' = Request(location.path, location.from, FALSE)
  /\ hops' = 0
  /\ UNCHANGED <<location, loginPage>>
  /\ UNCHANGED <<guardVars, hookVars, pairVars, listVars, apiVars, toastVars>>

NextNav ==
  \/ UserNavigates
  \/ MiddlewareRedirects
  \/ PageArrives
  \/ LoginEffect
  \/ MountEffects
  \/ RedirectEffect
  \/ GuardPush
  \/ FormLogin
  \/ CookieExpire
  \/ StorageCleared

SpecNav == Init /\ [][NextNav]_vars

\* The server answers, effects run and timeouts fire; the user may stop.
FairNav ==
  /\ SpecNav
  /\ WF_vars(MiddlewareRedirects)
  /\ WF_vars(PageArrives)
  /\ WF_vars(LoginEffect)
  /\ WF_vars(MountEffects)
  /\ WF_vars(RedirectEffect)
  /\ WF_vars(GuardPush)

\* ------------------------------------------------ lib/api, its callers

\* A caller awaits getAllCountries(); the network answers as it likes.
CallGetAllCountries ==
  \E outcome \in FetchOutcomes :
    /\ apiCall' = [fn |-> "getAllCountries", code |-> <<>>,
                   response |-> outcome, result |-> getAllCountries(outcome)]
    /\ UNCHANGED page
    /\ UNCHANGED <<storeVars, guardVars, hookVars, pairVars, listVars>>
    /\ UNCHANGED <<toastVars, navVars>>

\* A caller awaits getCountryByCode(code).
CallGetCountryByCode ==
  \E code \in CodeTexts, outcome \in FetchOutcomes :
    /\ apiCall' = [fn |-> "getCountryByCode", code |-> code,
                   response |-> outcome,
                   result |-> getCountryByCode(code, outcome)]
    /\ UNCHANGED page
    /\ UNCHANGED <<storeVars, guardVars, hookVars, pairVars, listVars>>
    /\ UNCHANGED <<toastVars, navVars>>

NextApi ==
  \/ CallGetAllCountries
  \/ CallGetCountryByCode

SpecApi == Init /\ [][NextApi]_vars

\* ------------------------------------------- CountryPage, /country/[id]

\* A request for /country/[id]: notFound() for an id that is no country
\* code, else the two promises of Promise.allSettled are created.
PageRequest ==
  \E id \in CodeTexts :
    /\ page.stage \in {"idle", "done"}
    /\ page' = IF isValidCountryCode(id)
                 THEN [NoPage EXCEPT !.stage = "fetching", !.id = id]
                 ELSE [NoPage EXCEPT !.stage = "done", !.id = id,
                                     !.view = "not-found"]
    /\ UNCHANGED apiCall
    /\ UNCHANGED <<storeVars, guardVars, hookVars, pairVars, listVars>>
    /\ UNCHANGED <<toastVars, navVars>>

\* The first promise, getCountryByCode(countryCode), settles.
PrimarySettles ==
  \E outcome \in FetchOutcomes :
    /\ page.stage = "fetching"
    /\ page.primary.code = "pending"
    /\ page' = [page EXCEPT !.primary = getCountryByCode(page.id, outcome)]
    /\ UNCHANGED apiCall
    /\ UNCHANGED <<storeVars, guardVars, hookVars, pairVars, listVars>>
    /\ UNCHANGED <<toastVars, navVars>>

\* The second promise's own getCountryByCode(countryCode) settles: a
\* rejection rejects the second promise, a country without borders fulfils
\* it with [], else getCountriesByCodes(country.borders) is called.
LookupSettles ==
  \E outcome \in FetchOutcomes :
    LET country == getCountryByCode(page.id, outcome)
    IN /\ page.stage = "fetching"
       /\ page.lookup.code = "pending"
       /\ page' = [page EXCEPT
                     !.lookup = country,
                     !.secondary =
                       IF country.threw THEN country
                       ELSE IF Len(country.value.borders.items) > 0
                         THEN Pending
                       ELSE Resolves(<<>>)]
       /\ UNCHANGED apiCall
       /\ UNCHANGED <<storeVars, guardVars, hookVars, pairVars, listVars>>
       /\ UNCHANGED <<toastVars, navVars>>

\* getCountriesByCodes(country.borders) settles.
BordersSettle ==
  \E outcome \in FetchOutcomes :
    /\ page.stage = "fetching"
    /\ page.lookup.code # "pending"
    /\ page.secondary.code = "pending"
    /\ page' = [page EXCEPT
                  !.borderFetch = outcome.kind,
                  !.secondary =
                    getCountriesByCodes(page.lookup.value.borders.items,
                                        outcome)]
    /\ UNCHANGED apiCall
    /\ UNCHANGED <<storeVars, guardVars, hookVars, pairVars, listVars>>
    /\ UNCHANGED <<toastVars, navVars>>

\* Promise.allSettled resolves once both promises have settled, and the
\* page renders.
PageRenders ==
  /\ page.stage = "fetching"
  /\ page.primary.code # "pending"
  /\ page.secondary.code # "pending"
  /\ LET rendered == CountryPageView(page.primary, page.secondary)
     IN page' = [page EXCEPT !.stage = "done",
                             !.view = rendered.view,
                             !.country = rendered.country,
                             !.borderCountries = rendered.borderCountries]
  /\ UNCHANGED apiCall
  /\ UNCHANGED <<storeVars, guardVars, hookVars, pairVars, listVars>>
  /\ UNCHANGED <<toastVars, navVars>>

NextPage ==
  \/ PageRequest
  \/ PrimarySettles
  \/ LookupSettles
  \/ BordersSettle
  \/ PageRenders

SpecPage == Init /\ [][NextPage]_vars

\* ------------------------------------------- the guard and the session

NextGuard ==
  \/ GuardMount
  \/ MountEffects
  \/ RedirectEffect
  \/ GuardUnmount
  \/ TimerFire
  \/ SessionLogin
  \/ SessionLogout
  \/ CookieExpire
  \/ Reload

SpecGuard == Init /\ [][NextGuard]_vars

\* ---------------------------------------- persistence and store shape

\* The four values of the store a reload has to bring back.
InMemory == <<isAuthenticated, favorites, recentlyAdded, favoritesMetadata>>

\* C24: the persisted blob always holds exactly the in-memory values of
\* isAuthenticated, favorites, recentlyAdded and favoritesMetadata, so a
\* reload between two operations leaves the store as the last operation
\* left it.
C24_BlobMirrorsMemory ==
  /\ [](/\ DOMAIN persisted = {"isAuthenticated", "favorites",
                               "recentlyAdded", "favoritesMetadata"}
        /\ persisted.isAuthenticated = isAuthenticated
        /\ persisted.favorites = favorites
        /\ persisted.recentlyAdded = recentlyAdded
        /\ persisted.favoritesMetadata = favoritesMetadata)
  /\ [][lastCall'.op = "reload" => InMemory' = InMemory]_vars

\* The store was reloaded after operations had changed it.
C24_Witness ==
  /\ lastCall.op = "reload"
  /\ ops > 1
  /\ persisted.favorites # <<>>
  /\ persisted.favorites # SeedCodes
  /\ \E c \in DOMAIN favoritesMetadata : favoritesMetadata[c].notes # NoNotes

\* C26: addToFavorites for a code that is already a favorite moves the code
\* to the front of recentlyAdded, without a duplicate.
C26_ReAddMovesToFront ==
  [][(/\ lastCall'.op = "addToFavorites"
      /\ ops' = ops + 1
      /\ Includes(favorites, ToLowerCase(lastCall'.arg)))
       => /\ recentlyAdded' # <<>>
          /\ recentlyAdded'[1] = ToLowerCase(lastCall'.arg)
          /\ \A i, j \in 1..Len(recentlyAdded') :
                recentlyAdded'[i] = recentlyAdded'[j] => i = j]_vars

\* C27: in every state store operations lead to, the keys of
\* favoritesMetadata are exactly the codes in favorites.
C27_MetadataKeysAreFavorites ==
  /\ \A c \in DOMAIN favoritesMetadata : Includes(favorites, c)
  /\ \A i \in 1..Len(favorites) : HasKey(favoritesMetadata, favorites[i])

\* Of two favorites added to the empty store one was removed again.
C27_Witness ==
  /\ lastCall.op \in {"removeFromFavorites", "toggleFavorite"}
  /\ ~Includes(favorites, ToLowerCase(lastCall.arg))
  /\ ~isAuthenticated
  /\ Len(favorites) = 1

\* C28: in every state store operations lead to, every code in
\* recentlyAdded is a favorite.
C28_RecentCodesAreFavorites ==
  \A i \in 1..Len(recentlyAdded) : Includes(favorites, recentlyAdded[i])

\* All favorites were cleared and one was added afterwards.
C28_Witness ==
  /\ isAuthenticated
  /\ lastCall.op \in {"addToFavorites", "toggleFavorite", "importFavorites"}
  /\ Len(favorites) = 1
  /\ Len(recentlyAdded) = 1

\* C29: in every state store operations lead to, no code is in favorites
\* twice, also after the import of a document that lists one code twice or
\* in two letter cases.
C29_FavoritesHaveNoDuplicates ==
  \A i, j \in 1..Len(favorites) : favorites[i] = favorites[j] => i = j

\* A document listing 'US' and 'us' was imported and 'us' is a favorite.
C29_Witness ==
  /\ lastCall.op = "importFavorites"
  /\ lastCall.ret = "true"
  /\ lastCall.arg.favorites = "array"
  /\ Len(lastCall.arg.items) = 2
  /\ lastCall.arg.items[1].code = "US"
  /\ lastCall.arg.items[2].code = "us"
  /\ Includes(favorites, "us")

\* ------------------------------------------------- the session in the UI

\* C25: in every state the UI leads to, an unauthenticated store has no
\* favorites, no metadata and no recently added codes.
C25_FavoritesScopedToSession ==
  ~isAuthenticated =>
    /\ favorites = <<>>
    /\ favoritesMetadata = EmptyObject
    /\ recentlyAdded = <<>>

\* Nothing is under way and the page shown is one that stays: the login
\* form, the favorites page's content, or the country list.
Settled ==
  /\ inFlight = NoRequest
  /\ loginPage # "effectDue"
  /\ ~EffectsPending
  /\ timers = 0
  /\ \/ location.path = PathLogin /\ loginPage = "form"
     \/ location.path = PathFavorites /\ mounted /\ view = "children"
     \/ location.path = PathHome

PassingBasic(items) ==
  LET kept == SelectSeq(items, safeValidateCountryBasic)
  IN [i \in 1..Len(kept) |-> BasicData(kept[i])]

\* C21: getAllCountries does not fail because of invalid records: for every
\* response array it resolves to exactly the records that pass basic
\* validation, in response order, and an empty response array gives an
\* empty result.
C21_InvalidRecordsAreSkipped ==
  (/\ apiCall.fn = "getAllCountries"
   /\ apiCall.response.kind = "json"
   /\ apiCall.response.body.isArray)
    => /\ ~apiCall.result.threw
       /\ apiCall.result.value = PassingBasic(apiCall.response.body.items)

\* Failures of the transport: fetch rejects, the status is not ok, or the
\* body is not JSON.
TransportFailures == {"rejects", "notOk", "badJson"}

C23_BordersNeverFailThePage ==
  (page.stage = "done" /\ page.primary.code # "pending" /\ ~page.primary.threw)
    => /\ page.view = "country"
       /\ page.country = page.primary.value
       /\ page.secondary.threw => page.borderCountries = <<>>
       /\ page.borderFetch \in TransportFailures
            => page.borderCountries = <<>>

\* The page was rendered for a country whose second promise was rejected.
C23_Witness ==
  /\ page.stage = "done"
  /\ page.view = "country"
  /\ page.lookup.threw
  /\ page.secondary.threw
  /\ page.borderCountries = <<>>

\* ------------------------------------------------ the debounce hooks

NextHook ==
  \/ HookMount
  \/ ChangeValue
  \/ ChangeDelay
  \/ TimeoutFires
  \/ TimePasses
  \/ ClearSearch
  \/ HookUnmount

SpecHook == Init /\ [][NextHook]_vars

\* Timers run when due and time does not stop.
FairHook ==
  /\ SpecHook
  /\ WF_vars(TimeoutFires)
  /\ WF_vars(TimePasses)

\* =========================================================== the claims

\* The codes held by each of the three collections.
FavoriteCodes == Elems(favorites)
MetadataCodes == DOMAIN favoritesMetadata
RecentCodes == Elems(recentlyAdded)

\* C1 as stated: in every reachable store state a code is in favorites iff
\* it has a metadata entry iff it is in recentlyAdded.
C1_ThreeWayMembership ==
  /\ FavoriteCodes = MetadataCodes
  /\ FavoriteCodes = RecentCodes

\* C1 as amended: in every reachable store state a code is in favorites iff
\* it has a metadata entry, and every code in recentlyAdded is in favorites
\* (a favorite pushed out of the ten-entry queue stays a favorite).
C1_MembershipUpToEviction ==
  /\ FavoriteCodes = MetadataCodes
  /\ RecentCodes \subseteq FavoriteCodes

\* C1's case: more favorites than the queue holds, so one was pushed out.
C1_Witness ==
  /\ Len(favorites) > RecentLimit
  /\ Len(recentlyAdded) = RecentLimit
  /\ lastCall.op \in {"toggleFavorite", "addToFavorites", "importFavorites"}

\* C2: whatever the state logout() is called in, it leaves the session
\* unauthenticated and favorites, favoritesMetadata and recentlyAdded empty.
C2_LogoutClearsAll ==
  lastCall.op = "logout" =>
    /\ isAuthenticated = FALSE
    /\ favorites = <<>>
    /\ MetadataCodes = {}
    /\ recentlyAdded = <<>>

\* C2's case: logout() was called after other calls had filled the store.
C2_Witness == lastCall.op = "logout" /\ ops = MaxOps

\* C10: importFavorites never throws; given a text that is not valid JSON or
\* whose parsed value has no favorites array it returns false and leaves
\* favorites, favoritesMetadata, recentlyAdded and isAuthenticated unchanged.
C10_InvalidImportRejected ==
  [][ /\ (lastCall'.op = "importFavorites" /\ ops' = ops + 1
            => lastCall'.ret # "throws")
      /\ (lastCall'.op = "importFavorites" /\ ops' = ops + 1
            /\ IsInvalidDoc(lastCall'.arg)
            => /\ lastCall'.ret = "false"
               /\ UNCHANGED <<favorites, favoritesMetadata, recentlyAdded,
                              isAuthenticated>>) ]_vars

\* C10's case: an invalid document was handed to a store holding favorites.
C10_Witness ==
  /\ lastCall.op = "importFavorites"
  /\ IsInvalidDoc(lastCall.arg)
  /\ lastCall.ret = "false"
  /\ favorites # <<>>

\* A document of the export format: valid JSON whose favorites is an array
\* of objects.
IsWellFormedDoc(doc) ==
  /\ ~IsInvalidDoc(doc)
  /\ \A i \in 1..Len(doc.items) : ~doc.items[i].isNull

\* The entries of a document that carry a code, and their lowercased codes.
DocEntries(doc) == {doc.items[i] : i \in {j \in 1..Len(doc.items) : doc.items[j].code # NoCode}}
DocCodes(doc) == {ToLowerCase(e.code) : e \in DocEntries(doc)}

\* What an entry of a document prescribes for the stored metadata: its own
\* addedAt and notes, the time of the import when it carries no addedAt.
PrescribedBy(e, time) ==
  [addedAt |-> IF e.addedAt = 0 THEN time ELSE e.addedAt, notes |-> e.notes]

\* C11: importFavorites of a well-formed document returns true; afterwards
\* the favorites are the previous ones plus the document's lowercased codes,
\* none twice; every added code carries the addedAt and notes of an entry of
\* the document (the import time when it has no addedAt); every code that
\* was a favorite before keeps its addedAt and notes.
C11_ImportMergesNewCodes ==
  [][ (lastCall'.op = "importFavorites" /\ ops' = ops + 1
         /\ IsWellFormedDoc(lastCall'.arg))
      => LET doc == lastCall'.arg
             added == DocCodes(doc) \ Elems(favorites)
         IN  /\ lastCall'.ret = "true"
             /\ Elems(favorites') = Elems(favorites) \cup DocCodes(doc)
             /\ Len(favorites') = Len(favorites) + Cardinality(added)
             /\ SubSeq(favorites', 1, Len(favorites)) = favorites
             /\ DOMAIN favoritesMetadata' = DOMAIN favoritesMetadata \cup added
             /\ \A c \in added :
                   \E e \in DocEntries(doc) :
                     /\ ToLowerCase(e.code) = c
                     /\ favoritesMetadata'[c] = PrescribedBy(e, now)
             /\ \A c \in DOMAIN favoritesMetadata :
                   favoritesMetadata'[c] = favoritesMetadata[c] ]_vars

\* C11's case: a document was imported of which one code was a favorite
\* already (it kept its own metadata) and another was added with the
\* document's notes.
C11_Witness ==
  /\ lastCall.op = "importFavorites"
  /\ IsWellFormedDoc(lastCall.arg)
  /\ lastCall.ret = "true"
  /\ \E e \in DocEntries(lastCall.arg) :
        /\ HasKey(favoritesMetadata, ToLowerCase(e.code))
        /\ \A d \in DocEntries(lastCall.arg) :
              favoritesMetadata[ToLowerCase(e.code)].notes # d.notes
  /\ \E e \in DocEntries(lastCall.arg) :
        /\ e.notes # NoNotes
        /\ HasKey(favoritesMetadata, ToLowerCase(e.code))
        /\ favoritesMetadata[ToLowerCase(e.code)].notes = e.notes

C13_DoubleToggleRestores ==
  phase = 2 =>
    /\ Elems(favorites) = Elems(before.favorites)
    /\ \A c \in Elems(favorites) :
          favoritesMetadata[c].notes = before.favoritesMetadata[c].notes

\* C13 as amended: after toggleFavorite(x) was called twice in a row the
\* favorite codes are those from before the two calls and every favorite
\* other than x has its whole entry unchanged; x, when it is a favorite, has
\* no notes (those it had are lost with the entry the first call deleted).
C13_DoubleToggleRestoresOthers ==
  phase = 2 =>
    LET x == ToLowerCase(lastCall.arg)
    IN  /\ Elems(favorites) = Elems(before.favorites)
        /\ DOMAIN favoritesMetadata = DOMAIN before.favoritesMetadata
        /\ \A c \in Elems(favorites) \ {x} :
              favoritesMetadata[c] = before.favoritesMetadata[c]
        /\ x \in Elems(favorites) =>
              /\ favoritesMetadata[x].notes = NoNotes
              /\ favoritesMetadata[x].addedAt = now

\* C13's case: an annotated favorite was toggled twice while other
\* favorites stayed in the store.
C13_Witness ==
  /\ phase = 2
  /\ ToLowerCase(lastCall.arg) \in Elems(favorites)
  /\ before.favoritesMetadata[ToLowerCase(lastCall.arg)].notes # NoNotes
  /\ Len(favorites) > 1

AdditionRank(c) == CHOOSE i \in 1..Len(favorites) : favorites[i] = c

\* C15: recentlyAdded never holds more than ten codes, holds no code twice,
\* and lists its codes from the most recently added to the least recently
\* added.
C15_RecentQueueBoundedOrdered ==
  /\ Len(recentlyAdded) <= RecentLimit
  /\ \A i, j \in 1..Len(recentlyAdded) :
        i # j => recentlyAdded[i] # recentlyAdded[j]
  /\ \A i, j \in 1..Len(recentlyAdded) :
        i < j => AdditionRank(recentlyAdded[i]) > AdditionRank(recentlyAdded[j])

\* C15's case: an eleventh distinct code was added one at a time and the
\* queue holds the ten latest codes, latest first.
C15_Witness ==
  /\ lastCall.op \in {"toggleFavorite", "addToFavorites"}
  /\ Len(favorites) = RecentLimit + 1
  /\ recentlyAdded = Reverse(SliceTail(favorites, RecentLimit))
  /\ recentlyAdded[1] = ToLowerCase(lastCall.arg)

\* C16 as stated: getRecentlyAdded(limit) returns at most limit codes, each
\* of them a favorite, in order of non-increasing addedAt.
C16_RecentlyAddedByAddedAt ==
  lastCall.op = "getRecentlyAdded" =>
    LET r == lastCall.ret
    IN  /\ Len(r) <= lastCall.arg
        /\ \A i \in 1..Len(r) : Includes(favorites, r[i])
        /\ \A i, j \in 1..Len(r) :
              i < j => favoritesMetadata[r[i]].addedAt
                         >= favoritesMetadata[r[j]].addedAt

\* C17: addFavoriteNote and removeFavoriteNote change nothing when the
\* lowercased code has no metadata entry; otherwise they leave favorites,
\* recentlyAdded, every other entry and the entry's addedAt as they were and
\* set (addFavoriteNote) or clear (removeFavoriteNote) the entry's notes.
C17_NotesOnlyTouchNotes ==
  [][ (lastCall'.op \in {"addFavoriteNote", "removeFavoriteNote"}
         /\ ops' = ops + 1)
      => LET c == ToLowerCase(lastCall'.arg)
         IN  IF ~HasKey(favoritesMetadata, c)
               THEN UNCHANGED <<favorites, favoritesMetadata, recentlyAdded>>
               ELSE /\ UNCHANGED <<favorites, recentlyAdded>>
                    /\ DOMAIN favoritesMetadata' = DOMAIN favoritesMetadata
                    /\ \A k \in DOMAIN favoritesMetadata \ {c} :
                          favoritesMetadata'[k] = favoritesMetadata[k]
                    /\ favoritesMetadata'[c].addedAt = favoritesMetadata[c].addedAt
                    /\ IF lastCall'.op = "addFavoriteNote"
                          THEN favoritesMetadata'[c].notes \in InputNotes
                          ELSE favoritesMetadata'[c].notes = NoNotes ]_vars

\* C17's case: a note was set through the uppercase code on an entry added
\* earlier, with other entries in the store.
C17_Witness ==
  /\ lastCall.op = "addFavoriteNote"
  /\ lastCall.arg = "US"
  /\ HasKey(favoritesMetadata, "us")
  /\ favoritesMetadata["us"].notes \in InputNotes
  /\ favoritesMetadata["us"].addedAt < now
  /\ Len(favorites) > 1

\* The codes of the model that contain an uppercase letter.
UpperCaseCodes == {"US", "Ca", "CA"}
\* The lowercase spelling of a code, written out.
LowerCaseOf(c) == IF c = "US" THEN "us" ELSE IF c \in {"Ca", "CA"} THEN "ca" ELSE c
\* The store operations that take a code.
CodeOperations ==
  {"toggleFavorite", "addToFavorites", "removeFromFavorites",
   "addFavoriteNote", "removeFavoriteNote"}

\* C18: favorites, the keys of favoritesMetadata and recentlyAdded hold
\* lowercase codes only, and a store operation given a code changes nothing
\* but the membership and the entry of that code's lowercase spelling.
C18_CodesAreLowercased ==
  /\ [](/\ Elems(favorites) \cap UpperCaseCodes = {}
        /\ DOMAIN favoritesMetadata \cap UpperCaseCodes = {}
        /\ Elems(recentlyAdded) \cap UpperCaseCodes = {})
  /\ [][ (lastCall'.op \in CodeOperations /\ ops' = ops + 1)
          => LET c == LowerCaseOf(lastCall'.arg)
             IN  /\ Elems(favorites') \ {c} = Elems(favorites) \ {c}
                 /\ DOMAIN favoritesMetadata' \ {c} = DOMAIN favoritesMetadata \ {c}
                 /\ \A k \in DOMAIN favoritesMetadata \ {c} :
                       favoritesMetadata'[k] = favoritesMetadata[k] ]_vars

\* C18's case: toggleFavorite('US') removed the favorite stored as 'us'.
C18_Witness ==
  /\ lastCall.op = "toggleFavorite"
  /\ lastCall.arg = "US"
  /\ ops >= 2
  /\ ~Includes(favorites, "us")
  /\ ~HasKey(favoritesMetadata, "us")
  /\ favorites # <<>>

\* A text of blanks only (empty after trimming).
IsBlank(text) == \A i \in 1..Len(text) : text[i] = " "

\* Two characters that are the same letter up to case.
SameLetter(a, b) ==
  \/ a = b
  \/ \E k \in 1..Len(UpperLetters) : {a, b} = {UpperLetters[k], LowerLetters[k]}

\* part occurs in text, letter case disregarded.
OccursIn(part, text) ==
  \E i \in 0..(Len(text) - Len(part)) :
    \A k \in 1..Len(part) : SameLetter(text[i + k], part[k])

\* The countries the view has to hold for the present region and term.
Wanted(c) ==
  /\ selectedRegion = Text_Empty \/ c.region = selectedRegion
  /\ \/ IsBlank(debouncedSearchTerm)
     \/ OccursIn(debouncedSearchTerm, c.name.common)
     \/ OccursIn(debouncedSearchTerm, c.name.official)
     \/ /\ c.capital.defined
        /\ \E k \in 1..Len(c.capital.names) :
             OccursIn(debouncedSearchTerm, c.capital.names[k])
     \/ OccursIn(debouncedSearchTerm, c.region)

\* C19: the view of the list container holds exactly the input countries
\* whose region is the selected one (or none is selected) and for which the
\* debounced term is blank or occurs, case disregarded, in the common name,
\* the official name, a capital or the region; no country is shown twice,
\* and without term and region all input countries are shown.
C19_ViewIsTheFilteredInput ==
  listMounted =>
    /\ Elems(shown) = {c \in Elems(countries) : Wanted(c)}
    /\ Cardinality(Elems(shown)) = Len(shown)
    /\ (debouncedSearchTerm = Text_Empty /\ selectedRegion = Text_Empty)
          => Len(shown) = Len(countries)

\* C19's case: of three countries only Bolivia is shown, found through its
\* second capital 'La Paz' and the region Americas.
C19_Witness ==
  /\ listMounted
  /\ Len(countries) = 3
  /\ debouncedSearchTerm = <<"l", "a", " ", "p">>
  /\ selectedRegion = <<"A", "m", "e", "r", "i", "c", "a", "s">>
  /\ shown = <<Bolivia>>

\* C20: for countries with pairwise distinct populations, switching the
\* sort order of the view sorted by population, filters unchanged, turns
\* the view into its reverse.
C20_PopulationOrdersAreReverses ==
  [][ (/\ listMounted
       /\ sortBy = "population" /\ sortBy' = "population"
       /\ sortOrder' # sortOrder
       /\ UNCHANGED <<countries, selectedRegion, debouncedSearchTerm>>
       /\ \A i, j \in 1..Len(countries) :
             i # j => countries[i].population # countries[j].population)
      => shown' = Reverse(shown) ]_vars

\* C20's case: three countries of distinct populations, shown largest
\* first after the order was switched to descending.
C20_Witness ==
  /\ listMounted
  /\ sortBy = "population"
  /\ sortOrder = "desc"
  /\ Len(countries) = 3
  /\ shown = <<Peru, Bolivia, Chad>>

\* C3: a ProtectedRoute with requireAuth = true shows only the loading
\* placeholder, never its children, while it is not hydrated or the session
\* is not authenticated.
C3_PlaceholderUnlessAuthenticated ==
  (mounted /\ requireAuth /\ (~isHydrated \/ ~isAuthenticated))
    => view = "fallback"

\* C3's case: a hydrated guard that showed its children is on screen when
\* logout() ends the session.
C3_Witness ==
  /\ mounted /\ requireAuth /\ isHydrated
  /\ ~isAuthenticated
  /\ lastCall.op = "logout"
  /\ view = "fallback"

\* C4 as stated: a mounted, hydrated ProtectedRoute shows its children
\* whenever isAuthenticated is true, also after the flag turned true while
\* the guard was mounted.
C4_ChildrenWhenAuthenticated ==
  (mounted /\ isHydrated /\ isAuthenticated) => view = "children"

\* C5 as stated: the guard's router.push to the login URL runs only while
\* the session is unauthenticated and the guard is still mounted.
C5_PushOnlyWhileUnauthenticated ==
  lastPush.fired => (~lastPush.authenticated /\ lastPush.mounted)

C7_BurstSettlesOnce ==
  /\ (hook = "mounted" /\ timeouts # {}) => debouncedValue = burstBase
  /\ (hook = "mounted" /\ timeouts = {})
       => (debouncedValue = searchTerm /\ settles = 1)

\* C7's case: a burst of several changes has settled on a new value.
C7_Witness ==
  /\ hook = "mounted"
  /\ burstLen >= 2
  /\ timeouts = {}
  /\ settles = 1
  /\ debouncedValue = searchTerm
  /\ debouncedValue # burstBase

\* C8: a useDebounce instance has at most one pending timer; a change of
\* value or delay leaves only the newly scheduled timer; after unmount no
\* timer is pending and the debounced value never changes again.
C8_SingleTimerCancelledOnTeardown ==
  /\ [](Cardinality(timeouts) <= 1)
  /\ [](hook = "unmounted" => timeouts = {})
  /\ [][changes' # changes => \A t \in timeouts' : t.id = timer']_vars
  /\ [][hook = "unmounted" => debouncedValue' = debouncedValue]_vars

\* C8's case: the hook was unmounted while an update was still pending.
C8_Witness ==
  /\ hook = "unmounted"
  /\ changes >= 1
  /\ searchTerm # debouncedValue
  /\ timeouts = {}

====
